---- MODULE Spec2Model ----
(***************************************************************************)
(* Verification model of riferrei/srclient: the protobuf wire-header codec *)
(* and descriptor resolver (examples/protobuf/lib), the serializer and     *)
(* deserializer facade with its header cache, and the schema registry      *)
(* client with its two caches (schemaRegistryClient.go).                   *)
(*                                                                         *)
(* The module holds several specifications over one set of variables.      *)
(* Each specification drives one part of the program and leaves the        *)
(* variables of the other parts at their initial value:                    *)
(*   SpecCodec   encodePayloadHeader / decodeHeader                        *)
(*   SpecDesc    resolveDescriptorByIndexes / computeMessageIndexes        *)
(*   SpecSerde   ProtobufSerializer.Serialize / ProtobufDeserializer       *)
(*               .Deserialize, called one after the other                  *)
(*   SpecClient  SchemaRegistryClient: one goroutine calling GetSchema,    *)
(*               GetLatestSchema, GetSchemaByVersion, CreateSchema,        *)
(*               LookupSchema, ResetCache and CachingEnabled against a     *)
(*               schema registry                                           *)
(*   SpecClientConc  the same calls made by two goroutines side by side    *)
(*   SpecHeaderCache  HeaderCache.Get / Put called by two goroutines       *)
(*   SpecSchema  the accessors of one Schema called by two goroutines      *)
(*   SpecMock    MockSchemaRegistryClient: CreateSchema, SetSchema and     *)
(*               the two deletions                                         *)
(***************************************************************************)
EXTENDS Integers, Sequences, FiniteSets, TLC

VARIABLES
    \* ---- header codec (SpecCodec) ----
    cstep,        \* "input" | "encoded" | "decoded" | "rawdecoded"
    schemaId,     \* schema id handed to encodePayloadHeader
    msgIndexes,   \* message-index path handed to encodePayloadHeader
    payload,      \* payload bytes that follow the header on the wire
    wire,         \* bytes produced by encodePayloadHeader (header only)
    decoded,      \* result of decodeHeader(wire \o payload)
    \* ---- descriptor resolver (SpecDesc) ----
    dstep,        \* "input" | "resolved" | "computed" | "roundtrip" | "instantiated"
    tree,         \* file descriptor tree: node -> ordered list of nested messages
    rpath,        \* index path handed to resolveDescriptorByIndexes
    resolved,     \* result of resolveDescriptorByIndexes
    computed,     \* [msg, idx]: a message and computeMessageIndexes of it
    instance,     \* what ResolveProtobuf made of the resolved descriptor
    \* ---- serializer / deserializer facade (SpecSerde) ----
    resolverSet,  \* the schemaResolver / protobufResolver dependency is configured
    hookSet,      \* an initialize hook is configured
    heap,         \* backing arrays of the byte slices: array id -> bytes (length = capacity)
    headerCache,  \* HeaderCache.m: [made, m], m maps schema id -> (type name -> slice)
    outs,         \* slices returned by the successful Serialize calls, oldest first
    issued,       \* (schema id, type name) -> header bytes computed on the cache miss
    last,         \* what the last Serialize / Deserialize call did and returned
    ncalls,       \* number of facade calls made
    \* ---- schema registry client (SpecClient) ----
    registry,               \* the remote registry: subject -> ids, by version
    cachingEnabled,         \* SchemaRegistryClient.cachingEnabled
    idSchemaCache,          \* SchemaRegistryClient.idSchemaCache: id -> stored Schema
    subjectSchemaCache,     \* SchemaRegistryClient.subjectSchemaCache: key -> stored Schema
    idSchemaCacheLock,      \* sync.RWMutex: the goroutine holding it, or NoThread
    subjectSchemaCacheLock, \* sync.RWMutex: the goroutine holding it, or NoThread
    sem,                    \* weight acquired on SchemaRegistryClient.sem
    th,                     \* per goroutine: position in the call and its locals
    resets,                 \* number of times ResetCache has replaced the maps
    lastReset,              \* the latest reset: the keys it dropped, and whether no
                            \* goroutine held a fetched but unstored Schema then
    callsLeft,              \* number of client calls that can still be started
    \* ---- HeaderCache shared by goroutines (SpecHeaderCache) ----
    hcMu,         \* HeaderCache.mu: the goroutine holding it, or NoThread
    hcTh,         \* per goroutine: position in its Get or Put and its locals
    hcPut,        \* the keys whose Put has returned
    hcBare,       \* the accesses of HeaderCache.m made without holding mu
    hcLeft,       \* number of Get / Put calls that can still be started
    \* ---- one Schema value shared by goroutines (SpecSchema) ----
    schemaObj,    \* the fields of the Schema
    schemaTh,     \* per goroutine: position in the accessor it runs, its result
    schemaWrites, \* the fields that accessors have assigned since creation
    schemaLeft,   \* number of accessor calls that can still be started
    \* ---- MockSchemaRegistryClient (SpecMock) ----
    schemaVersions, \* subject -> version -> *Schema
    schemaIDs,      \* schema id -> *Schema
    idCounter,      \* the last id CreateSchema has handed out
    mockLast,       \* the last call: its arguments, its result, the state before it
    mockLeft,       \* number of calls that can still be started
    \* ---- protobuf example client with its protoCache (SpecProto) ----
    protoReg,       \* the registry: schema id -> what GET /schemas/ids/{id} answers
    protoCache,     \* protoCache.m: schema id -> *desc.FileDescriptor
    protoParsed,    \* number of file descriptors the parser has built
    protoLast,      \* the last GetProtoSchema call, its result and what it did
    protoLeft       \* number of calls that can still be started

codecVars == <<cstep, schemaId, msgIndexes, payload, wire, decoded>>
descVars == <<dstep, tree, rpath, resolved, computed, instance>>
serdeVars == <<resolverSet, hookSet, heap, headerCache, outs, issued, last, ncalls>>
clientVars == <<registry, cachingEnabled, idSchemaCache, subjectSchemaCache,
                idSchemaCacheLock, subjectSchemaCacheLock, sem, th, resets,
                lastReset, callsLeft>>

hcVars == <<hcMu, hcTh, hcPut, hcBare, hcLeft>>

schemaVars == <<schemaObj, schemaTh, schemaWrites, schemaLeft>>

mockVars == <<schemaVersions, schemaIDs, idCounter, mockLast, mockLeft>>

protoVars == <<protoReg, protoCache, protoParsed, protoLast, protoLeft>>

vars == <<codecVars, descVars, serdeVars, clientVars, hcVars, schemaVars, mockVars,
          protoVars>>

None == "none"

(***************************************************************************)
(* Bounds                                                                  *)
(***************************************************************************)
MaxPathLen == 3

\* schema ids tried by the codec (Go int; the writer keeps the low 32 bits)
SchemaIdValues == {0, 1, 42, 255, 256, 65536, 16777216, 2147483647}

\* index values tried by the codec: one-byte and two-byte zigzag varints
IndexValues == {0, 1, 2, 63, 64, 300}

\* payloads that follow the header; they look like further varints on purpose
PayloadValues == {<<>>, <<2>>, <<8, 1>>, <<255, 255>>}

RECURSIVE SeqsUpTo(_, _)
SeqsUpTo(S, n) ==
    IF n = 0 THEN {<<>>}
    ELSE LET shorter == SeqsUpTo(S, n - 1)
         IN  shorter \cup {Append(s, x) : s \in {t \in shorter : Len(t) = n - 1}, x \in S}

(***************************************************************************)
(* encoding/binary as used by the codec                                    *)
(***************************************************************************)
MaxVarintLen64 == 10

\* the four big-endian bytes of a value in 0..2^31-1
BigEndian4(u) ==
    <<(u \div 16777216) % 256, (u \div 65536) % 256, (u \div 256) % 256, u % 256>>

\* binary.BigEndian.PutUint32(buf, uint32(v)): uint32 keeps the low 32 bits,
\* so a negative v is written in two's complement (the bytes of -v-1, inverted)
PutUint32(v) ==
    IF v >= 0 THEN BigEndian4(v)
    ELSE LET c == BigEndian4((-v) - 1)
         IN  <<255 - c[1], 255 - c[2], 255 - c[3], 255 - c[4]>>

\* binary.BigEndian.Uint32(b)
Uint32(b) == b[1] * 16777216 + b[2] * 65536 + b[3] * 256 + b[4]

\* binary.PutUvarint: 7 bits per byte, least significant group first
RECURSIVE PutUvarint(_)
PutUvarint(x) ==
    IF x < 128 THEN <<x>>
    ELSE <<(x % 128) + 128>> \o PutUvarint(x \div 128)

\* binary.PutVarint: zigzag, then PutUvarint
PutVarint(x) ==
    LET ux == IF x < 0 THEN (-2 * x) - 1 ELSE 2 * x
    IN  PutUvarint(ux)

\* binary.Uvarint: returns [x, n]; n = 0 buffer too small, n < 0 overflow
RECURSIVE UvarintFrom(_, _, _, _)
UvarintFrom(buf, i, x, mult) ==
    \* i is the 0-based index of the byte examined next
    IF i >= Len(buf) THEN [x |-> 0, n |-> 0]
    ELSE IF i = MaxVarintLen64 THEN [x |-> 0, n |-> -(i + 1)]
    ELSE LET b == buf[i + 1]
         IN  IF b < 128
             THEN IF i = MaxVarintLen64 - 1 /\ b > 1
                  THEN [x |-> 0, n |-> -(i + 1)]
                  ELSE [x |-> x + b * mult, n |-> i + 1]
             ELSE UvarintFrom(buf, i + 1, x + (b % 128) * mult, mult * 128)

Uvarint(buf) == UvarintFrom(buf, 0, 0, 1)

\* binary.Varint: Uvarint, then undo the zigzag
Varint(buf) ==
    LET u == Uvarint(buf)
        half == u.x \div 2
    IN  [x |-> IF u.x % 2 = 1 THEN (-half) - 1 ELSE half, n |-> u.n]

\* bytes[from:] with a 0-based offset
SliceFrom(bytes, from) == SubSeq(bytes, from + 1, Len(bytes))

(***************************************************************************)
(* encodePayloadHeader                                                     *)
(***************************************************************************)
\* the plausible slip of writing the index values with PutUvarint (no zigzag)
RECURSIVE PutElementsUnsigned(_)
PutElementsUnsigned(idx) ==
    IF idx = <<>> THEN <<>>
    ELSE PutUvarint(Head(idx)) \o PutElementsUnsigned(Tail(idx))

\* the loop of encodePayloadHeader over the index values
RECURSIVE PutElements(_)
PutElements(idx) ==
    IF idx = <<>> THEN <<>>
    ELSE PutVarint(Head(idx)) \o PutElements(Tail(idx))

\* capacity of the buffer encodePayloadHeader allocates
HeaderCap(idx) == 5 + ((1 + Len(idx)) * MaxVarintLen64)

encodePayloadHeader(id, idx) ==
    <<0>> \o PutUint32(id) \o PutVarint(Len(idx)) \o PutElements(idx)

(***************************************************************************)
(* decodeHeader                                                            *)
(***************************************************************************)
ErrInvalidProtobufWireProtocolVersion == "invalid protobuf wire protocol"
ErrUnableToDecodeMessageIndexArray == "unable to decode message index array"
ErrUnableToDecodeValueInMessageIndexArray == "unable to decode value in message index array"
NoErr == "nil"

\* a run-time panic of the Go program (index or slice bound, makeslice)
Fault == [fault |-> TRUE, totalBytesRead |-> 0, schemaId |-> 0,
          msgIndexes |-> <<>>, err |-> NoErr]

Returned(total, id, idx, e) ==
    [fault |-> FALSE, totalBytesRead |-> total, schemaId |-> id,
     msgIndexes |-> idx, err |-> e]

\* the loop of decodeHeader: i counts decoded elements, idx is the slice
\* made with arrayLen zero elements and filled in place
RECURSIVE decodeLoop(_, _, _, _, _, _)
decodeLoop(bytes, id, arrayLen, i, total, idx) ==
    IF i >= arrayLen THEN Returned(total, id, idx, NoErr)
    ELSE LET v == Varint(SliceFrom(bytes, total))
         IN  IF v.n <= 0
             THEN Returned(total, id, idx, ErrUnableToDecodeValueInMessageIndexArray)
             ELSE decodeLoop(bytes, id, arrayLen, i + 1, total + v.n,
                             [idx EXCEPT ![i + 1] = v.x])

decodeHeader(bytes) ==
    IF Len(bytes) = 0 THEN Fault                       \* bytes[0]
    ELSE IF bytes[1] # 0
    THEN Returned(0, 0, <<>>, ErrInvalidProtobufWireProtocolVersion)
    ELSE IF Len(bytes) < 5 THEN Fault                  \* bytes[1:5]
    ELSE LET id == Uint32(SubSeq(bytes, 2, 5))
             v  == Varint(SliceFrom(bytes, 5))
         IN  IF v.n <= 0
             THEN Returned(0, id, <<>>, ErrUnableToDecodeMessageIndexArray)
             ELSE IF v.x < 0 THEN Fault                \* make([]int, arrayLen)
             ELSE LET appended == IF v.x = 0 THEN <<0>> ELSE <<>>
                      \* msgIndexes = make([]int, arrayLen) replaces `appended`
                      made == [j \in 1..v.x |-> 0]
                  IN  decodeLoop(bytes, id, v.x, 0, 5 + v.n, made)

(***************************************************************************)
(* File descriptor trees                                                   *)
(*                                                                         *)
(* A tree maps each node to the ordered list of its nested messages; the   *)
(* node "file" is the file descriptor and its list is GetMessageTypes().   *)
(***************************************************************************)
FileNode == "file"

\* the schema of TestResolveProtobuf
FixtureTree ==
    [n \in {FileNode, "MessageA", "MessageB", "MessageC", "MessageD", "MessageE",
            "MessageF", "MessageG", "MessageH", "MessageI"} |->
        CASE n = FileNode   -> <<"MessageA", "MessageH">>
          [] n = "MessageA" -> <<"MessageB", "MessageD", "MessageE">>
          [] n = "MessageB" -> <<"MessageC">>
          [] n = "MessageE" -> <<"MessageF", "MessageG">>
          [] n = "MessageH" -> <<"MessageI">>
          [] OTHER          -> <<>>]

\* a chain nested four deep, and a file that declares no message
ChainTree ==
    [n \in {FileNode, "M1", "M2", "M3", "M4"} |->
        CASE n = FileNode -> <<"M1">>
          [] n = "M1"     -> <<"M2">>
          [] n = "M2"     -> <<"M3">>
          [] n = "M3"     -> <<"M4">>
          [] OTHER        -> <<>>]

EmptyTree == [n \in {FileNode} |-> <<>>]

Trees == {FixtureTree, ChainTree, EmptyTree}

Messages(t) == DOMAIN t \ {FileNode}

\* descriptor.Parent() and descriptor.Index()
Parent(t, m) == CHOOSE p \in DOMAIN t : \E i \in 1..Len(t[p]) : t[p][i] = m
Index(t, m) == (CHOOSE i \in 1..Len(t[Parent(t, m)]) : t[Parent(t, m)][i] = m) - 1

\* index values handed to the resolver, some of them out of range
ResolveIndexValues == {-1, 0, 1, 2, 3}

(***************************************************************************)
(* resolveDescriptorByIndexes                                              *)
(***************************************************************************)
ErrTypeUndefinedInSchemaRegistry == "type is not defined in schema registry"

ResolveFault == [fault |-> TRUE, desc |-> None, err |-> NoErr]
ResolveErr(e) == [fault |-> FALSE, desc |-> None, err |-> e]
ResolveOk(d) == [fault |-> FALSE, desc |-> d, err |-> NoErr]

\* s[index] of a Go slice: a panic unless 0 <= index < len(s)
InRange(s, index) == 0 <= index /\ index < Len(s)

\* the bug of indexing the nested list one position too far
RECURSIVE resolveOffByOne(_, _, _)
resolveOffByOne(t, idx, descriptor) ==
    IF Len(idx) = 0 THEN ResolveOk(descriptor)
    ELSE LET index == Head(idx)
             rest  == Tail(idx)
         IN  IF descriptor = FileNode
             THEN IF index >= Len(t[descriptor]) THEN ResolveErr(ErrTypeUndefinedInSchemaRegistry)
                  ELSE IF ~InRange(t[descriptor], index) THEN ResolveFault
                  ELSE resolveOffByOne(t, rest, t[descriptor][index + 1])
             ELSE IF ~InRange(t[descriptor], index + 1) THEN ResolveFault
                  ELSE IF Len(rest) > 0
                       THEN resolveOffByOne(t, rest, t[descriptor][index + 2])
                       ELSE ResolveOk(t[descriptor][index + 2])

RECURSIVE resolveDescriptorByIndexes(_, _, _)
resolveDescriptorByIndexes(t, idx, descriptor) ==
    IF Len(idx) = 0 THEN ResolveOk(descriptor)
    ELSE LET index == Head(idx)
             rest  == Tail(idx)
         IN  IF descriptor = FileNode
             THEN \* case *desc.FileDescriptor
                  IF index >= Len(t[descriptor]) THEN ResolveErr(ErrTypeUndefinedInSchemaRegistry)
                  ELSE IF ~InRange(t[descriptor], index) THEN ResolveFault
                  ELSE resolveDescriptorByIndexes(t, rest, t[descriptor][index + 1])
             ELSE \* case *desc.MessageDescriptor: no bounds check
                  IF ~InRange(t[descriptor], index) THEN ResolveFault
                  ELSE IF Len(rest) > 0
                       THEN resolveDescriptorByIndexes(t, rest, t[descriptor][index + 1])
                       ELSE ResolveOk(t[descriptor][index + 1])

(***************************************************************************)
(* computeMessageIndexes                                                   *)
(***************************************************************************)
\* the bug of collecting the indexes bottom-up without reversing them
RECURSIVE computeBottomUp(_, _, _)
computeBottomUp(t, descriptor, count) ==
    LET index == Index(t, descriptor)
    IN  IF Parent(t, descriptor) = FileNode
        THEN <<index>>
        ELSE <<index>> \o computeBottomUp(t, Parent(t, descriptor), count + 1)

RECURSIVE computeMessageIndexes(_, _, _)
computeMessageIndexes(t, descriptor, count) ==
    LET index == Index(t, descriptor)
    IN  IF Parent(t, descriptor) = FileNode
        THEN \* make([]int, count+1), first value set, sliced to [0:1]
             LET made == [j \in 1..(count + 1) |-> IF j = 1 THEN index ELSE 0]
             IN  SubSeq(made, 1, 1)
        ELSE Append(computeMessageIndexes(t, Parent(t, descriptor), count + 1), index)

(***************************************************************************)
(* Byte slices: a slice is [arr, len] over a backing array of the heap     *)
(***************************************************************************)
\* a nil slice
NilSlice == [arr |-> 0, len |-> 0]

\* the bytes a slice shows
Bytes(h, sl) == IF sl.arr = 0 THEN <<>> ELSE SubSeq(h[sl.arr], 1, sl.len)

Zeros(n) == [j \in 1..n |-> 0]

\* make([]byte, cap) filled with `contents`, sliced to len(contents)
AllocArray(h, contents, cap) == Append(h, contents \o Zeros(cap - Len(contents)))
NewSlice(h, contents) == [arr |-> Len(h) + 1, len |-> Len(contents)]

\* append(sl, bs...): in place while the capacity lasts, else a new array
AppendFits(h, sl, bs) == sl.len + Len(bs) <= Len(h[sl.arr])
AppendHeap(h, sl, bs) ==
    IF AppendFits(h, sl, bs)
    THEN [h EXCEPT ![sl.arr] =
            [j \in 1..Len(h[sl.arr]) |->
                IF j > sl.len /\ j <= sl.len + Len(bs) THEN bs[j - sl.len] ELSE h[sl.arr][j]]]
    ELSE Append(h, Bytes(h, sl) \o bs)
AppendSlice(h, sl, bs) ==
    IF AppendFits(h, sl, bs)
    THEN [arr |-> sl.arr, len |-> sl.len + Len(bs)]
    ELSE [arr |-> Len(h) + 1, len |-> sl.len + Len(bs)]

(***************************************************************************)
(* What the facade is called with, and its collaborators                   *)
(***************************************************************************)
\* what Serialize is handed: nil, a value that is no proto.Message, a message
NilThing == [kind |-> "nil", type |-> None, body |-> <<>>, vt |-> FALSE]
NonProto == [kind |-> "other", type |-> None, body |-> <<>>, vt |-> FALSE]

\* a protobuf message: its type in the compiled (client-side) descriptors, the
\* bytes proto.Marshal gives for it, and whether it implements VTMarshal
Msg(type, n, fill, vt) ==
    [kind |-> "message", type |-> type, body |-> [j \in 1..n |-> fill], vt |-> vt]

\* message bodies: short ones fit the spare capacity of a header buffer,
\* the 19-byte one does not fit behind the header of a one-element path
ProtoMessages ==
    { Msg("MessageA", 2, 7, FALSE), Msg("MessageA", 2, 9, FALSE),
      Msg("MessageA", 19, 5, FALSE), Msg("MessageA", 2, 3, TRUE),
      Msg("MessageG", 2, 7, FALSE), Msg("MessageI", 1, 4, FALSE) }

Things == ProtoMessages \cup {NilThing, NonProto}

\* the descriptors compiled into the client
ClientTree == FixtureTree

\* GetProtoSchema: the registry's file descriptor of each schema id; schema 2
\* is a schema the client's message types were not generated from
ProtoSchemas == [i \in {1, 2} |-> IF i = 1 THEN FixtureTree ELSE ChainTree]

\* schema ids ResolveSchema answers with
SchemaIds == {1, 2}

\* the message types of the ProtobufRegistry, by Descriptor().Name()
RegisteredTypes == {"MessageA", "MessageG", "MessageI", "M1"}

ErrNonProtobufSerializationTarget == "serialization target must be a protobuf"
ErrSchemaResolverUndefined == "schemaResolver is undefined"
ErrMissingMessageTypeInSchema == "unable to find MessageType for messageIndex inside schema"
ErrNothingToDeserialize == "unable to deserialize nil"
\* errors of the collaborators
ErrResolveSchema == "ResolveSchema failed"
ErrProtoSchema == "GetProtoSchema failed"
ErrMarshal == "marshal failed"
ErrUnmarshal == "unmarshal failed"

(***************************************************************************)
(* HeaderCache                                                             *)
(***************************************************************************)
EmptyMap == [k \in {} |-> None]

\* the nil map of a new HeaderCache; a nil map reads as an empty one
NilMap == [made |-> FALSE, m |-> EmptyMap]

\* Get makes the map when it found it nil: p.m = make(...)
HeaderCacheInit(c) == [made |-> TRUE, m |-> EmptyMap]

\* the bug of keying the cache by schema id alone
HeaderCacheGetAnyType(c, id, name) ==
    IF id \notin DOMAIN c.m \/ DOMAIN c.m[id] = {}
    THEN [header |-> NilSlice, ok |-> FALSE]
    ELSE [header |-> c.m[id][CHOOSE n \in DOMAIN c.m[id] : TRUE], ok |-> TRUE]

HeaderCacheGet(c, id, name) ==
    IF id \notin DOMAIN c.m             \* p.m[schemaId] == nil
    THEN [header |-> NilSlice, ok |-> FALSE]
    ELSE IF name \in DOMAIN c.m[id]
         THEN [header |-> c.m[id][name], ok |-> TRUE]
         ELSE [header |-> NilSlice, ok |-> FALSE]

MapPut(f, k, v) == [x \in DOMAIN f \cup {k} |-> IF x = k THEN v ELSE f[x]]

\* a Put that stores nothing
HeaderCachePutNothing(c, id, name, header) == [made |-> TRUE, m |-> c.m]

\* Put: the inner map is made when missing and the header stored in it
HeaderCachePut(c, id, name, header) ==
    LET inner == IF id \in DOMAIN c.m THEN c.m[id] ELSE EmptyMap
    IN  [made |-> TRUE, m |-> MapPut(c.m, id, MapPut(inner, name, header))]

(***************************************************************************)
(* Marshal (the default SerializationFunc)                                 *)
(***************************************************************************)
\* heap and returned slice of Marshal(header, msg)
MarshalHeap(h, header, msg) ==
    IF msg.vt
    THEN \* buffer := make([]byte, 0, size); append(buffer, header...); MarshalToVT
         AllocArray(h, Bytes(h, header) \o msg.body, header.len + Len(msg.body))
    ELSE \* header = append(header, bytes...)
         AppendHeap(h, header, msg.body)
MarshalSlice(h, header, msg) ==
    IF msg.vt
    THEN NewSlice(h, Bytes(h, header) \o msg.body)
    ELSE AppendSlice(h, header, msg.body)

(***************************************************************************)
(* ProtobufSerializer.generateHeader                                       *)
(***************************************************************************)
\* [fault, err, header, hit, heap, cache, protoCalled]
generateHeader(h, m, id, msg, protoOk) ==
    LET got == HeaderCacheGet(m, id, msg.type)
        \* Get: if p.m == nil { p.m = make(...) }
        m1 == IF m.made THEN m ELSE HeaderCacheInit(m)
        idx == computeMessageIndexes(ClientTree, msg.type, 0)
        res == resolveDescriptorByIndexes(ProtoSchemas[id], idx, FileNode)
        buf == encodePayloadHeader(id, idx)
        miss == [fault |-> FALSE, err |-> NoErr, header |-> NilSlice, hit |-> FALSE,
                 heap |-> h, cache |-> m1, protoCalled |-> TRUE]
    IN  IF got.ok
        THEN [fault |-> FALSE, err |-> NoErr, header |-> got.header, hit |-> TRUE,
              heap |-> h, cache |-> m1, protoCalled |-> FALSE]
        ELSE IF ~protoOk THEN [miss EXCEPT !.err = ErrProtoSchema]
        ELSE IF res.fault THEN [miss EXCEPT !.fault = TRUE]
        ELSE IF res.err # NoErr THEN [miss EXCEPT !.err = res.err]
        ELSE [miss EXCEPT !.header = NewSlice(h, buf),
                          !.heap = AllocArray(h, buf, HeaderCap(idx)),
                          !.cache = HeaderCachePut(m1, id, msg.type, NewSlice(h, buf))]

(***************************************************************************)
(* ProtobufSerializer.Serialize                                            *)
(***************************************************************************)
\* what one call did: the result, the heap and cache it leaves, and how often
\* it called each collaborator
CallRecord(op, in, sid, res, h, m) ==
    [op |-> op, in |-> in, sid |-> sid, res |-> res, heap |-> h, cache |-> m,
     hit |-> FALSE, header |-> NilSlice, decoded |-> Fault, resolveSchemaCalls |-> 0, protoSchemaCalls |-> 0,
     hookCalls |-> 0, marshalCalls |-> 0, resolverCalls |-> 0, unmarshalCalls |-> 0,
     hookMsg |-> NilThing, marshalMsg |-> NilThing]

SerResult(fault, err, out) == [fault |-> fault, err |-> err, out |-> out]

\* no schema id
NoSchema == 0

\* the bug of leaving out the nil check
ThingIsNilNever(thing) == FALSE

\* thing == nil
ThingIsNil(thing) == thing.kind = "nil"

\* a hook that is left out when the header comes from the cache
HookSkippedOnCacheHit(hit) == IF hookSet /\ ~hit THEN 1 ELSE 0

\* if ps.initialize != nil { ps.initialize(msg) }: the calls of the hook in
\* a Serialize call that has resolved the schema, whether or not the header
\* is then found in the cache
HookInvocations(hit) == IF hookSet THEN 1 ELSE 0

\* schemaRes: NoSchema when ResolveSchema fails, else the id of the schema it returns
SerializeCall(h, m, thing, schemaRes, protoOk, marshalOk) ==
    LET early(err) == CallRecord("Serialize", thing, NoSchema, SerResult(FALSE, err, NilSlice), h, m)
        gen == generateHeader(h, m, schemaRes, thing, protoOk)
        base == [CallRecord("Serialize", thing, schemaRes, SerResult(FALSE, NoErr, NilSlice),
                            gen.heap, gen.cache)
                    EXCEPT !.resolveSchemaCalls = 1,
                           !.hookCalls = HookInvocations(gen.hit),
                           !.hookMsg = IF hookSet THEN thing ELSE NilThing,
                           !.hit = gen.hit,
                           !.protoSchemaCalls = IF gen.protoCalled THEN 1 ELSE 0]
    IN  IF ThingIsNil(thing) THEN early(NoErr)
        ELSE IF thing.kind # "message" THEN early(ErrNonProtobufSerializationTarget)
        ELSE IF ~resolverSet THEN early(ErrSchemaResolverUndefined)
        ELSE IF schemaRes = NoSchema
        THEN [early(ErrResolveSchema) EXCEPT !.resolveSchemaCalls = 1]
        ELSE IF gen.fault THEN [base EXCEPT !.res = SerResult(TRUE, NoErr, NilSlice)]
        ELSE IF gen.err # NoErr THEN [base EXCEPT !.res = SerResult(FALSE, gen.err, NilSlice)]
        ELSE IF ~marshalOk
        THEN [base EXCEPT !.res = SerResult(FALSE, ErrMarshal, NilSlice),
                          !.header = gen.header, !.marshalCalls = 1,
                          !.marshalMsg = thing]
        ELSE [base EXCEPT !.res = SerResult(FALSE, NoErr, MarshalSlice(gen.heap, gen.header, thing)),
                          !.heap = MarshalHeap(gen.heap, gen.header, thing),
                          !.header = gen.header, !.marshalCalls = 1,
                          !.marshalMsg = thing]

(***************************************************************************)
(* SchemaRegistryProtobufResolver.ResolveProtobuf                          *)
(***************************************************************************)
\* the name GetName() gives: a message's name, or the file's name
FileName == "schema.proto"
GetName(d) == IF d = FileNode THEN FileName ELSE d

\* a message type is known by its full name, the names from the outermost
\* message (or a package) down to its own; Descriptor().Name() and GetName()
\* give the last of them
RECURSIVE FullName(_, _)
FullName(t, d) ==
    IF d = FileNode THEN <<>> ELSE Append(FullName(t, Parent(t, d)), d)
ShortName(full) == full[Len(full)]

\* the types of a schema as generated code registers them
GeneratedTypes(t) == {FullName(t, m) : m \in Messages(t)}

\* a package of the same program that declares messages of its own
OtherPackageTypes == {<<"billing", "MessageC">>, <<"billing", "MessageH">>}

\* the ProtobufRegistry handed to the resolver: the types of the schema, or
\* (protoregistry.GlobalTypes) those of every package linked into the program
ProtobufRegistries(t) == {GeneratedTypes(t), GeneratedTypes(t) \cup OtherPackageTypes}

\* RangeMessages with the callback of lines 82-88: the first type whose
\* Descriptor().Name() equals name ends the iteration; the order of the
\* iteration is not specified, so any type of that name can be the first
\* [mt, err]
RangeMessages(registered, name) ==
    LET matches == {mt \in registered : ShortName(mt) = name}
    IN  IF matches = {} THEN {[mt |-> None, err |-> ErrMissingMessageTypeInSchema]}
        ELSE {[mt |-> mt, err |-> NoErr] : mt \in matches}

\* [fault, err, pb]: pb is the type name of the empty message instantiated;
\* the registry holds one type of each name of RegisteredTypes
ResolveProtobuf(id, idx, protoOk) ==
    LET res == resolveDescriptorByIndexes(ProtoSchemas[id], idx, FileNode)
    IN  IF id \notin DOMAIN ProtoSchemas \/ ~protoOk
        THEN [fault |-> FALSE, err |-> ErrProtoSchema, pb |-> None]
        ELSE IF res.fault THEN [fault |-> TRUE, err |-> NoErr, pb |-> None]
        ELSE IF res.err # NoErr THEN [fault |-> FALSE, err |-> res.err, pb |-> None]
        ELSE IF GetName(res.desc) \in RegisteredTypes
        THEN [fault |-> FALSE, err |-> NoErr, pb |-> GetName(res.desc)]
        ELSE [fault |-> FALSE, err |-> ErrMissingMessageTypeInSchema, pb |-> None]

(***************************************************************************)
(* ProtobufDeserializer.Deserialize                                        *)
(***************************************************************************)
DesResult(fault, err, pb) == [fault |-> fault, err |-> err, pb |-> pb]

\* no message
NilMsg == [type |-> None, body |-> <<>>]

\* what Deserialize is handed: a nil slice or a byte sequence
NilBytes == [nil |-> TRUE, b |-> <<>>]
SomeBytes(b) == [nil |-> FALSE, b |-> b]

DeserializeCall(h, m, bytes, protoOk, unmarshalOk) ==
    LET rec(res) == CallRecord("Deserialize", bytes, NoSchema, res, h, m)
        hdr == decodeHeader(bytes.b)
        \* the error of decodeHeader is overwritten by the next assignment to err
        pb  == ResolveProtobuf(hdr.schemaId, hdr.msgIndexes, protoOk)
        called == [rec(DesResult(FALSE, NoErr, NilMsg))
                      EXCEPT !.decoded = hdr, !.sid = hdr.schemaId, !.resolverCalls = 1]
    IN  IF bytes.nil THEN rec(DesResult(FALSE, ErrNothingToDeserialize, NilMsg))
        ELSE IF hdr.fault THEN [rec(DesResult(TRUE, NoErr, NilMsg)) EXCEPT !.decoded = hdr]
        ELSE IF ~resolverSet    \* method call on a nil interface value
        THEN [rec(DesResult(TRUE, NoErr, NilMsg)) EXCEPT !.decoded = hdr]
        ELSE IF pb.fault THEN [called EXCEPT !.res = DesResult(TRUE, NoErr, NilMsg)]
        ELSE IF pb.err # NoErr THEN [called EXCEPT !.res = DesResult(FALSE, pb.err, NilMsg)]
        ELSE IF ~unmarshalOk
        THEN [called EXCEPT !.res = DesResult(FALSE, ErrUnmarshal, NilMsg), !.unmarshalCalls = 1]
        ELSE [called EXCEPT !.unmarshalCalls = 1,
                            !.res = DesResult(FALSE, NoErr,
                                       [type |-> pb.pb,
                                        body |-> SliceFrom(bytes.b, hdr.totalBytesRead)])]

\* byte sequences handed to Deserialize besides the results of Serialize:
\* nil, a wrong version byte, a header cut before the index count, a count of
\* two followed by one index, a count of zero, a well-formed header with payload
RawInputs ==
    { <<1, 0, 0, 0, 1, 2, 0>>,
      <<0, 0, 0, 0, 1>>,
      <<0, 0, 0, 0, 1, 4, 0>>,
      <<0, 0, 0, 0, 1, 4, 0, 128>>,
      <<0, 0, 0, 0, 1, 0, 7>>,
      <<0, 0, 0, 0, 1, 6, 0, 4, 2, 7, 7>>,
      <<0, 0, 0, 0, 3, 2, 0, 7>> }

(***************************************************************************)
(* Schema registry client (schemaRegistryClient.go)                        *)
(***************************************************************************)
\* goroutines sharing one SchemaRegistryClient
Threads == {"t1", "t2"}
NoThread == "-"

\* the goroutines that call the client in SpecClient: one, so that its calls
\* follow one another
Callers == {"t1"}

\* subjects and schema texts the calls are made with
Subjects == {"s1", "s2"}

\* the schema texts there are, by the id the registry gives each of them
SchemaTexts == <<"a", "b">>
Texts == {SchemaTexts[i] : i \in DOMAIN SchemaTexts}

\* SchemaType values handed to CreateSchema; "XML" is not one of the three
Avro == "AVRO"
Protobuf == "PROTOBUF"
Json == "JSON"
SchemaTypeValues == {Avro, Protobuf, "XML"}

\* a type switch without its default case
AnySchemaType(schemaType) == TRUE

\* switch schemaType: the cases Avro, Json and Protobuf, as against default
ValidSchemaType(schemaType) == schemaType \in {Avro, Json, Protobuf}

\* SchemaType values the client calls are made with: the client treats the
\* three valid types alike once the line breaks of Avro and Json texts are
\* replaced, and the texts of SchemaTexts hold none
ClientSchemaTypes == {Avro, "XML"}

\* total number of client calls started in a behaviour
MaxOps == 3

\* weight given to WithSemaphoreWeight
SemaphoreWeight == 1

ErrHTTP == "registry request failed"
ErrInvalidSchemaType == "invalid schema type. valid values are Avro, Json, or Protobuf"

\* ---- the registry behind the HTTP surface ----
\* subject -> ids registered under it, the position being the version; an id
\* no subject holds is not known to the registry
EmptyRegistry == [s \in Subjects |-> <<>>]

Range(q) == {q[i] : i \in DOMAIN q}

Itoa(n) == ToString(n)

NoResp == [ok |-> FALSE, id |-> 0, version |-> 0, schema |-> ""]
OkResp(id, version, schema) == [ok |-> TRUE, id |-> id, version |-> version, schema |-> schema]

\* versions under which some subject holds the id
VersionsOf(reg, id) ==
    {v \in DOMAIN SchemaTexts : \E s \in Subjects : v \in DOMAIN reg[s] /\ reg[s][v] = id}

\* GET /schemas/ids/{id}: the request names no subject, so the version in the
\* body is that of any subject holding the id; any request can also fail
GetSchemaByIdResponses(reg, id) ==
    {NoResp} \cup {OkResp(id, v, SchemaTexts[id]) : v \in VersionsOf(reg, id)}

\* a version of a subject that was deleted keeps its number and holds no
\* schema id (0 in its place)
LiveVersions(vs) == {v \in DOMAIN vs : vs[v] \in DOMAIN SchemaTexts}

\* GET /subjects/{subject}/versions/{version}; "latest" is the highest
\* version that is not deleted
GetSubjectVersionResponses(reg, subject, version) ==
    LET vs == reg[subject]
        live == LiveVersions(vs)
        n == IF version = "latest"
             THEN IF live = {} THEN 0 ELSE CHOOSE m \in live : \A x \in live : x <= m
             ELSE CHOOSE v \in DOMAIN SchemaTexts : Itoa(v) = version
    IN {NoResp} \cup
       (IF n \in live THEN {OkResp(vs[n], n, SchemaTexts[vs[n]])} ELSE {})

\* DELETE /subjects/{subject}: every version of the subject is deleted; not
\* found when the subject has none
DeleteSubjectOutcomes(reg, subject) ==
    {[resp |-> NoResp, reg |-> reg]} \cup
    (IF LiveVersions(reg[subject]) = {} THEN {}
     ELSE {[resp |-> OkResp(0, 0, ""),
            reg |-> [reg EXCEPT ![subject] = [v \in DOMAIN @ |-> 0]]]})

\* DELETE /subjects/{subject}/versions/{version}
DeleteVersionOutcomes(reg, subject, version) ==
    LET n == CHOOSE v \in DOMAIN SchemaTexts : Itoa(v) = version
    IN  {[resp |-> NoResp, reg |-> reg]} \cup
        (IF n \in LiveVersions(reg[subject])
         THEN {[resp |-> OkResp(0, n, ""), reg |-> [reg EXCEPT ![subject][n] = 0]]}
         ELSE {})

\* what a registration of text under subject makes of the registry: a text
\* the subject already holds keeps its version, a new one is appended
Register(reg, subject, text) ==
    LET id == CHOOSE i \in DOMAIN SchemaTexts : SchemaTexts[i] = text
    IN [id |-> id,
        reg |-> IF id \in Range(reg[subject]) THEN reg
                ELSE [reg EXCEPT ![subject] = Append(@, id)]]

\* POST /subjects/{subject}/versions: registers and answers the id, or fails
\* leaving the registry as it was
PostSubjectVersionsOutcomes(reg, subject, text) ==
    {[resp |-> NoResp, reg |-> reg],
     [resp |-> OkResp(Register(reg, subject, text).id, 0, ""),
      reg |-> Register(reg, subject, text).reg]}

\* POST /subjects/{subject}: answers the id and version under which the
\* subject holds the text, or fails (not found, or the request itself)
PostSubjectResponses(reg, subject, text) ==
    LET id == CHOOSE i \in DOMAIN SchemaTexts : SchemaTexts[i] = text
        vs == reg[subject]
    IN {NoResp} \cup {OkResp(id, v, text) : v \in {n \in DOMAIN vs : vs[n] = id}}

\* ---- client values ----
\* *Schema; fetchedAt records how many resets had happened when the
\* response it was built from arrived
NilSchema == [nil |-> TRUE, id |-> 0, schema |-> "", version |-> 0, fetchedAt |-> 0]
NewSchema(id, schema, version, at) ==
    [nil |-> FALSE, id |-> id, schema |-> schema, version |-> version, fetchedAt |-> at]

\* a cache slot: the *Schema and how many resets had happened when it was stored
Entry(schema, at) == [s |-> schema, at |-> at]

\* one key per subject, whatever the version
cacheKeyIgnoresVersion(subject, version) == subject

cacheKey(subject, version) == subject \o "-" \o version

\* a cache that never answers
CacheGetAlwaysMisses(cache, k) == NilSchema

\* map[k]: the zero value (nil) for a missing key
CacheGet(cache, k) == IF k \in DOMAIN cache THEN cache[k].s ELSE NilSchema

\* sync.RWMutex: the goroutine holding the write lock, or NoThread. A read
\* or write section of one map access is one step, so no read lock is ever
\* held between steps; the write lock is held between the steps of ResetCache
Unlocked == NoThread
CanRLock(l) == l = NoThread
CanLock(l) == l = NoThread
Lock(l, t) == t

\* an Unlock that leaves the lock held
UnlockForgotten(l) == l

Unlock(l) == NoThread

\* the calls that read through the caches
ReadOps == {"GetSchema", "GetSchemaByVersion", "GetLatestSchema"}

\* what a goroutine remembers of its previous call: that it was ResetCache,
\* or a CreateSchema that succeeded with its subject and the id it returned,
\* or ("same") a read that succeeded with the arguments of the call being
\* made now and the Schema it returned
NoPrev == [op |-> "none", subject |-> "", id |-> 0, res |-> NilSchema]

\* what a goroutine remembers of the two caches as they were when its call
\* began
NoCaches == [ids |-> EmptyMap, keys |-> EmptyMap]

\* a goroutine between calls, before its first one; off tells that caching
\* was disabled when the call began and has not been enabled since
IdleThread ==
    [pc |-> "done", op |-> "none", site |-> "", nested |-> FALSE,
     subject |-> "", version |-> "", id |-> 0, text |-> "", schemaType |-> "",
     permanent |-> FALSE, resp |-> NoResp, schema |-> NilSchema, res |-> NilSchema, err |-> NoErr,
     reqs |-> 0, fetchedAt |-> 0, hit |-> FALSE, off |-> FALSE, prev |-> NoPrev,
     before |-> NoCaches]

\* the locals of a goroutine entering a call
Enter(r, op, subject, version, id) ==
    [IdleThread EXCEPT !.op = op, !.subject = subject, !.version = version, !.id = id,
        !.off = ~cachingEnabled,
        !.before = [ids |-> idSchemaCache, keys |-> subjectSchemaCache],
        !.prev = IF r.op = "CreateSchema" /\ r.err = NoErr
                  THEN [NoPrev EXCEPT !.op = r.op, !.subject = r.subject, !.id = r.res.id]
                  ELSE IF r.op = "ResetCache" THEN [NoPrev EXCEPT !.op = r.op]
                  ELSE IF /\ op \in ReadOps
                          /\ r.op = op /\ r.subject = subject
                          /\ r.version = version /\ r.id = id
                          /\ r.err = NoErr
                  THEN [NoPrev EXCEPT !.op = "same", !.res = r.res]
                  ELSE NoPrev]

\* a return that hands back the result and drops the error
ReturnDropsError(r, result, err) ==
    [r EXCEPT !.pc = "done", !.res = result, !.err = NoErr, !.site = "",
              !.resp = NoResp, !.schema = NilSchema, !.fetchedAt = 0]

\* the call returns (result, err) to the application
Return(r, result, err) ==
    [r EXCEPT !.pc = "done", !.res = result, !.err = err, !.site = "",
              !.resp = NoResp, !.schema = NilSchema, !.fetchedAt = 0]

\* a GetSchema whose return ends the call it was made from as well
GetSchemaReturnEndsCreate(r, result, err) == Return(r, result, err)

\* GetSchema returns: to the application, or into CreateSchema (line 495)
GetSchemaReturn(r, result, err) ==
    IF r.nested
    THEN [r EXCEPT !.pc = "cs_got", !.schema = result, !.err = err, !.nested = FALSE]
    ELSE Return(r, result, err)

NoReset == [clean |-> TRUE, ids |-> {}, keys |-> {}]

\* the client as NewSchemaRegistryClient returns it
NewClient ==
    /\ cachingEnabled = TRUE
    /\ idSchemaCache = EmptyMap
    /\ subjectSchemaCache = EmptyMap
    /\ idSchemaCacheLock = Unlocked
    /\ subjectSchemaCacheLock = Unlocked
    /\ sem = 0
    /\ th = [t \in Threads |-> IdleThread]
    /\ resets = 0
    /\ lastReset = NoReset

ClientIdle ==
    /\ NewClient
    /\ registry = EmptyRegistry
    /\ callsLeft = 0

(***************************************************************************)
(* Initial values of each part; a specification starts the parts it does   *)
(* not drive in these and never changes them                               *)
(***************************************************************************)
\* a goroutine that is not inside a HeaderCache call
HcIdleThread ==
    [pc |-> "done", op |-> "none", id |-> 0, name |-> "", later |-> FALSE,
     res |-> [header |-> NilSlice, ok |-> FALSE, fault |-> FALSE]]

HcIdle ==
    /\ hcMu = NoThread
    /\ hcTh = [t \in Threads |-> HcIdleThread]
    /\ hcPut = {}
    /\ hcBare = {}
    /\ hcLeft = 0

\* the zero Schema and a goroutine that is not inside an accessor
NoSchemaObj ==
    [id |-> 0, schema |-> "", version |-> 0, references |-> <<>>,
     codec |-> 0, jsonSchema |-> 0]

SchemaIdleThread == [pc |-> "done", op |-> "none", handle |-> 0, res |-> 0]

SchemaIdle ==
    /\ schemaObj = NoSchemaObj
    /\ schemaTh = [t \in Threads |-> SchemaIdleThread]
    /\ schemaWrites = {}
    /\ schemaLeft = 0

\* the mock registry as CreateMockSchemaRegistryClient returns it
NoMockSchema == [id |-> 0, schema |-> <<>>, schemaType |-> "", version |-> 0]

NoMockCall ==
    [op |-> "none", subject |-> "", text |-> <<>>, schemaType |-> "", version |-> 0,
     ok |-> FALSE, err |-> "nil", res |-> NoMockSchema,
     idBefore |-> 0, versionsBefore |-> {}, id |-> 0, pairs |-> {}]

NewMock ==
    /\ schemaVersions = EmptyMap
    /\ schemaIDs = EmptyMap
    /\ idCounter = 0
    /\ mockLast = NoMockCall

MockIdle ==
    /\ NewMock
    /\ mockLeft = 0

\* the example client before its first GetProtoSchema call
NoProtoCall ==
    [schemaId |-> 0, fd |-> 0, err |-> NoErr, fault |-> FALSE,
     fetched |-> 0, parsed |-> 0, called |-> FALSE, cacheBefore |-> EmptyMap,
     earlier |-> EmptyMap]

ProtoIdle ==
    /\ protoReg = EmptyMap
    /\ protoCache = EmptyMap
    /\ protoParsed = 0
    /\ protoLast = NoProtoCall
    /\ protoLeft = 0

CodecIdle ==
    /\ cstep = "input"
    /\ schemaId = 0
    /\ msgIndexes = <<>>
    /\ payload = <<>>
    /\ wire = <<>>
    /\ decoded = None

DescIdle ==
    /\ dstep = "input"
    /\ tree = EmptyTree
    /\ rpath = <<>>
    /\ resolved = None
    /\ computed = None
    /\ instance = None

\* before the first call
NoCall ==
    [CallRecord("none", NilThing, NoSchema, SerResult(FALSE, NoErr, NilSlice), <<>>, NilMap)
        EXCEPT !.heap = <<>>, !.cache = NilMap]

SerdeIdle ==
    /\ resolverSet = TRUE
    /\ hookSet = FALSE
    /\ heap = <<>>
    /\ headerCache = NilMap
    /\ outs = <<>>
    /\ issued = EmptyMap
    /\ last = NoCall
    /\ ncalls = 0

(***************************************************************************)
(* SpecCodec: encode a header, put a payload behind it, decode it          *)
(***************************************************************************)
InitCodec ==
    /\ cstep = "input"
    /\ schemaId \in SchemaIdValues
    /\ msgIndexes \in SeqsUpTo(IndexValues, MaxPathLen)
    /\ payload \in PayloadValues
    /\ wire = <<>>
    /\ decoded = None
    /\ DescIdle
    /\ SerdeIdle
    /\ ClientIdle
    /\ HcIdle
    /\ SchemaIdle
    /\ MockIdle
    /\ ProtoIdle

Encode ==
    /\ cstep = "input"
    /\ wire' = encodePayloadHeader(schemaId, msgIndexes)
    /\ cstep' = "encoded"
    /\ UNCHANGED <<schemaId, msgIndexes, payload, decoded>>
    /\ UNCHANGED <<descVars, serdeVars, clientVars, hcVars, schemaVars, mockVars, protoVars>>

Decode ==
    /\ cstep = "encoded"
    /\ decoded' = decodeHeader(wire \o payload)
    /\ cstep' = "decoded"
    /\ UNCHANGED <<schemaId, msgIndexes, payload, wire>>
    /\ UNCHANGED <<descVars, serdeVars, clientVars, hcVars, schemaVars, mockVars, protoVars>>

\* byte sequences handed to decodeHeader as they are: those of RawInputs, an
\* empty slice, slices shorter than the five fixed bytes, a count of -1, and
\* a count whose varint runs past MaxVarintLen64 bytes
RawHeaders ==
    RawInputs \cup
    { <<>>,
      <<7>>,
      <<0>>,
      <<0, 0, 0>>,
      <<0, 0, 0, 0, 1, 1>>,
      <<0, 0, 0, 0, 1, 128, 128, 128, 128, 128, 128, 128, 128, 128, 128, 1>> }

\* decodeHeader called on bytes that did not come from encodePayloadHeader
DecodeRaw ==
    /\ cstep = "input"
    /\ \E b \in RawHeaders :
          /\ wire' = b
          /\ decoded' = decodeHeader(b)
    /\ cstep' = "rawdecoded"
    /\ UNCHANGED <<schemaId, msgIndexes, payload>>
    /\ UNCHANGED <<descVars, serdeVars, clientVars, hcVars, schemaVars, mockVars, protoVars>>

NextCodec == Encode \/ Decode \/ DecodeRaw

SpecCodec == InitCodec /\ [][NextCodec]_vars

(***************************************************************************)
(* SpecDesc: resolve a path against a tree; compute a message's path and   *)
(* resolve it again                                                        *)
(***************************************************************************)
InitDesc ==
    /\ dstep = "input"
    /\ tree \in Trees
    /\ rpath \in SeqsUpTo(ResolveIndexValues, MaxPathLen)
    /\ resolved = None
    /\ computed = None
    /\ instance = None
    /\ CodecIdle
    /\ SerdeIdle
    /\ ClientIdle
    /\ HcIdle
    /\ SchemaIdle
    /\ MockIdle
    /\ ProtoIdle

ResolvePath ==
    /\ dstep = "input"
    /\ resolved' = resolveDescriptorByIndexes(tree, rpath, FileNode)
    /\ dstep' = "resolved"
    /\ UNCHANGED <<tree, rpath, computed, instance>>
    /\ UNCHANGED <<codecVars, serdeVars, clientVars, hcVars, schemaVars, mockVars, protoVars>>

ComputeIndexes ==
    /\ dstep = "input"
    /\ \E m \in Messages(tree) :
          computed' = [msg |-> m, idx |-> computeMessageIndexes(tree, m, 0)]
    /\ dstep' = "computed"
    /\ UNCHANGED <<tree, rpath, resolved, instance>>
    /\ UNCHANGED <<codecVars, serdeVars, clientVars, hcVars, schemaVars, mockVars, protoVars>>

ResolveComputed ==
    /\ dstep = "computed"
    /\ resolved' = resolveDescriptorByIndexes(tree, computed.idx, FileNode)
    /\ dstep' = "roundtrip"
    /\ UNCHANGED <<tree, rpath, computed, instance>>
    /\ UNCHANGED <<codecVars, serdeVars, clientVars, hcVars, schemaVars, mockVars, protoVars>>

\* ResolveProtobuf after resolveDescriptorByIndexes has returned msg: the
\* ProtobufRegistry is ranged over for a type of that name (lines 81-94)
Instantiate ==
    /\ dstep = "resolved"
    /\ ~resolved.fault
    /\ resolved.err = NoErr
    /\ \E reg \in ProtobufRegistries(tree) :
          \E out \in RangeMessages(reg, GetName(resolved.desc)) :
              instance' = [registry |-> reg, desc |-> FullName(tree, resolved.desc),
                           type |-> out.mt, err |-> out.err]
    /\ dstep' = "instantiated"
    /\ UNCHANGED <<tree, rpath, resolved, computed>>
    /\ UNCHANGED <<codecVars, serdeVars, clientVars, hcVars, schemaVars, mockVars, protoVars>>

NextDesc == ResolvePath \/ ComputeIndexes \/ ResolveComputed \/ Instantiate

SpecDesc == InitDesc /\ [][NextDesc]_vars

(***************************************************************************)
(* SpecSerde: a serializer and a deserializer, called one call at a time   *)
(***************************************************************************)
MaxCalls == 2

InitSerde ==
    /\ resolverSet \in BOOLEAN
    /\ hookSet \in BOOLEAN
    /\ heap = <<>>
    /\ headerCache = NilMap    \* NewProtobufSerializer: &HeaderCache{}
    /\ outs = <<>>
    /\ issued = EmptyMap
    /\ last = NoCall
    /\ ncalls = 0
    /\ CodecIdle
    /\ DescIdle
    /\ ClientIdle
    /\ HcIdle
    /\ SchemaIdle
    /\ MockIdle
    /\ ProtoIdle

Serialize ==
    /\ ncalls < MaxCalls
    /\ \E thing \in Things, schemaRes \in SchemaIds \cup {NoSchema}, protoOk \in BOOLEAN,
          marshalOk \in BOOLEAN :
          LET c == SerializeCall(heap, headerCache, thing, schemaRes, protoOk, marshalOk)
              key == <<c.sid, thing.type>>
          IN  /\ last' = [c EXCEPT !.heap = <<>>, !.cache = NilMap]
              /\ heap' = c.heap
              /\ headerCache' = c.cache
              /\ outs' = IF c.res.out # NilSlice THEN Append(outs, c.res.out) ELSE outs
              /\ issued' = IF c.header # NilSlice /\ ~c.hit
                           THEN MapPut(issued, key, Bytes(c.heap, c.header))
                           ELSE issued
    /\ ncalls' = ncalls + 1
    /\ UNCHANGED <<resolverSet, hookSet>>
    /\ UNCHANGED <<codecVars, descVars, clientVars, hcVars, schemaVars, mockVars, protoVars>>

Deserialize ==
    /\ ncalls < MaxCalls
    /\ \E bytes \in {NilBytes} \cup {SomeBytes(b) : b \in RawInputs}
                        \cup {SomeBytes(Bytes(heap, outs[i])) : i \in 1..Len(outs)},
          protoOk \in BOOLEAN, unmarshalOk \in BOOLEAN :
          LET c == DeserializeCall(heap, headerCache, bytes, protoOk, unmarshalOk)
          IN  last' = [c EXCEPT !.heap = <<>>, !.cache = NilMap]
    /\ ncalls' = ncalls + 1
    /\ UNCHANGED <<resolverSet, hookSet, heap, headerCache, outs, issued>>
    /\ UNCHANGED <<codecVars, descVars, clientVars, hcVars, schemaVars, mockVars, protoVars>>

NextSerde == Serialize \/ Deserialize

SpecSerde == InitSerde /\ [][NextSerde]_vars

(***************************************************************************)
(* SpecClient: goroutines call the client; each action is one step of a    *)
(* call, the shared fields being touched only under the locks the code     *)
(* takes                                                                   *)
(***************************************************************************)
InitClient ==
    /\ NewClient
    /\ registry = EmptyRegistry
    /\ callsLeft = MaxOps
    /\ CodecIdle
    /\ DescIdle
    /\ SerdeIdle
    /\ HcIdle
    /\ SchemaIdle
    /\ MockIdle
    /\ ProtoIdle

\* a goroutine that can start a call
CanCall(t) == th[t].pc = "done" /\ callsLeft > 0

\* a read that goes to the cache whatever getCachingEnabled() answers
AfterCachingCheckIgnoresFlag(r, readPc, site) == [r EXCEPT !.pc = readPc]

\* where a read goes after getCachingEnabled() (lines 272, 697)
AfterCachingCheck(r, readPc, site) ==
    IF cachingEnabled THEN [r EXCEPT !.pc = readPc]
    ELSE [r EXCEPT !.pc = "http_acquire", !.site = site]

\* GetSchema(schemaID) is called
CallGetSchema(t) ==
    /\ CanCall(t)
    /\ \E id \in DOMAIN SchemaTexts :
         th' = [th EXCEPT ![t] =
                  AfterCachingCheck(Enter(th[t], "GetSchema", "", "", id),
                                    "gs_read", "gs")]
    /\ callsLeft' = callsLeft - 1
    /\ UNCHANGED <<registry, cachingEnabled, idSchemaCache, subjectSchemaCache,
                   idSchemaCacheLock, subjectSchemaCacheLock, sem, resets, lastReset>>
    /\ UNCHANGED <<codecVars, descVars, serdeVars, hcVars, schemaVars, mockVars, protoVars>>

\* the cache read between RLock and RUnlock of idSchemaCacheLock, and the
\* return of a hit (lines 273-278)
GetSchemaRead(t) ==
    /\ th[t].pc = "gs_read"
    /\ CanRLock(idSchemaCacheLock)
    /\ LET cachedSchema == CacheGet(idSchemaCache, th[t].id)
       IN th' = [th EXCEPT ![t] =
                   IF ~cachedSchema.nil
                   THEN GetSchemaReturn([th[t] EXCEPT !.hit = TRUE], cachedSchema, NoErr)
                   ELSE [th[t] EXCEPT !.pc = "http_acquire", !.site = "gs"]]
    /\ UNCHANGED <<registry, cachingEnabled, idSchemaCache, subjectSchemaCache,
                   idSchemaCacheLock, subjectSchemaCacheLock, sem, resets,
                   lastReset, callsLeft>>
    /\ UNCHANGED <<codecVars, descVars, serdeVars, hcVars, schemaVars, mockVars, protoVars>>

\* httpRequest: sem.Acquire(ctx, 1) (line 777)
HttpAcquire(t) ==
    /\ th[t].pc = "http_acquire"
    /\ sem < SemaphoreWeight
    /\ sem' = sem + 1
    /\ th' = [th EXCEPT ![t].pc = "http_do"]
    /\ UNCHANGED <<registry, cachingEnabled, idSchemaCache, subjectSchemaCache,
                   idSchemaCacheLock, subjectSchemaCacheLock, resets, lastReset, callsLeft>>
    /\ UNCHANGED <<codecVars, descVars, serdeVars, hcVars, schemaVars, mockVars, protoVars>>

\* what the registry answers to the request of the call site, and what the
\* request makes of the registry
HttpOutcomes(r) ==
    IF r.site = "gs"
    THEN {[resp |-> x, reg |-> registry] : x \in GetSchemaByIdResponses(registry, r.id)}
    ELSE IF r.site = "gv"
    THEN {[resp |-> x, reg |-> registry] :
            x \in GetSubjectVersionResponses(registry, r.subject, r.version)}
    ELSE IF r.site = "ls"
    THEN {[resp |-> x, reg |-> registry] :
            x \in PostSubjectResponses(registry, r.subject, r.text)}
    ELSE IF r.site = "ds"
    THEN DeleteSubjectOutcomes(registry, r.subject)
    ELSE IF r.site = "dv"
    THEN DeleteVersionOutcomes(registry, r.subject, r.version)
    ELSE IF r.site = "dp"
    THEN {[resp |-> x, reg |-> registry] : x \in {NoResp, OkResp(0, 0, "")}}
    ELSE PostSubjectVersionsOutcomes(registry, r.subject, r.text)

\* a Release that is skipped when the request failed
SemAfterDoLeaksOnError(s, resp) == IF resp.ok THEN s - 1 ELSE s

\* the semaphore after httpClient.Do: the deferred Release(1) runs whatever
\* the answer (line 778)
SemAfterDo(s, resp) == s - 1

\* httpRequest: httpClient.Do answers, the deferred sem.Release(1) runs and
\* the body or the error goes back to the caller (lines 778-791)
HttpDo(t) ==
    /\ th[t].pc = "http_do"
    /\ \E o \in HttpOutcomes(th[t]) :
         /\ sem' = SemAfterDo(sem, o.resp)
         /\ registry' = o.reg
         /\ th' = [th EXCEPT ![t] =
                     [th[t] EXCEPT !.pc = th[t].site \o "_resp", !.resp = o.resp,
                                   !.reqs = @ + 1, !.fetchedAt = resets]]
    /\ UNCHANGED <<cachingEnabled, idSchemaCache, subjectSchemaCache,
                   idSchemaCacheLock, subjectSchemaCacheLock, resets, lastReset, callsLeft>>
    /\ UNCHANGED <<codecVars, descVars, serdeVars, hcVars, schemaVars, mockVars, protoVars>>

\* GetSchema after httpRequest: the error return, or the Schema is built and
\* getCachingEnabled() is asked again (lines 282-308)
GetSchemaBuild(t) ==
    /\ th[t].pc = "gs_resp"
    /\ LET r == th[t]
           schema == NewSchema(r.id, r.resp.schema, r.resp.version, r.fetchedAt)
       IN th' = [th EXCEPT ![t] =
                   IF ~r.resp.ok THEN GetSchemaReturn(r, NilSchema, ErrHTTP)
                   ELSE IF cachingEnabled THEN [r EXCEPT !.pc = "gs_write", !.schema = schema]
                   ELSE GetSchemaReturn(r, schema, NoErr)]
    /\ UNCHANGED <<registry, cachingEnabled, idSchemaCache, subjectSchemaCache,
                   idSchemaCacheLock, subjectSchemaCacheLock, sem, resets, lastReset, callsLeft>>
    /\ UNCHANGED <<codecVars, descVars, serdeVars, hcVars, schemaVars, mockVars, protoVars>>

\* the cache write between Lock and Unlock of idSchemaCacheLock, and the
\* return (lines 309-314)
GetSchemaWrite(t) ==
    /\ th[t].pc = "gs_write"
    /\ CanLock(idSchemaCacheLock)
    /\ idSchemaCache' = MapPut(idSchemaCache, th[t].id, Entry(th[t].schema, resets))
    /\ th' = [th EXCEPT ![t] = GetSchemaReturn(th[t], th[t].schema, NoErr)]
    /\ UNCHANGED <<registry, cachingEnabled, subjectSchemaCache, idSchemaCacheLock,
                   subjectSchemaCacheLock, sem, resets, lastReset, callsLeft>>
    /\ UNCHANGED <<codecVars, descVars, serdeVars, hcVars, schemaVars, mockVars, protoVars>>

\* GetLatestSchema(subject) is called: getVersion(subject, "latest") (line 320)
CallGetLatestSchema(t) ==
    /\ CanCall(t)
    /\ \E subject \in Subjects :
         th' = [th EXCEPT ![t] =
                  AfterCachingCheck(Enter(th[t], "GetLatestSchema", subject, "latest", 0),
                                    "gv_read", "gv")]
    /\ callsLeft' = callsLeft - 1
    /\ UNCHANGED <<registry, cachingEnabled, idSchemaCache, subjectSchemaCache,
                   idSchemaCacheLock, subjectSchemaCacheLock, sem, resets, lastReset>>
    /\ UNCHANGED <<codecVars, descVars, serdeVars, hcVars, schemaVars, mockVars, protoVars>>

\* GetSchemaByVersion(subject, version) is called:
\* getVersion(subject, strconv.Itoa(version)) (line 456)
CallGetSchemaByVersion(t) ==
    /\ CanCall(t)
    /\ \E subject \in Subjects, version \in DOMAIN SchemaTexts :
         th' = [th EXCEPT ![t] =
                  AfterCachingCheck(Enter(th[t], "GetSchemaByVersion", subject,
                                          Itoa(version), 0),
                                    "gv_read", "gv")]
    /\ callsLeft' = callsLeft - 1
    /\ UNCHANGED <<registry, cachingEnabled, idSchemaCache, subjectSchemaCache,
                   idSchemaCacheLock, subjectSchemaCacheLock, sem, resets, lastReset>>
    /\ UNCHANGED <<codecVars, descVars, serdeVars, hcVars, schemaVars, mockVars, protoVars>>

\* the cache read between RLock and RUnlock of subjectSchemaCacheLock, and
\* the return of a hit (lines 698-704)
GetVersionRead(t) ==
    /\ th[t].pc = "gv_read"
    /\ CanRLock(subjectSchemaCacheLock)
    /\ LET cachedResult == CacheGet(subjectSchemaCache,
                                    cacheKey(th[t].subject, th[t].version))
       IN th' = [th EXCEPT ![t] =
                   IF ~cachedResult.nil
                   THEN Return([th[t] EXCEPT !.hit = TRUE], cachedResult, NoErr)
                   ELSE [th[t] EXCEPT !.pc = "http_acquire", !.site = "gv"]]
    /\ UNCHANGED <<registry, cachingEnabled, idSchemaCache, subjectSchemaCache,
                   idSchemaCacheLock, subjectSchemaCacheLock, sem, resets,
                   lastReset, callsLeft>>
    /\ UNCHANGED <<codecVars, descVars, serdeVars, hcVars, schemaVars, mockVars, protoVars>>

\* getVersion after httpRequest: the error return, or the Schema is built
\* and getCachingEnabled() is asked again (lines 708-733)
GetVersionBuild(t) ==
    /\ th[t].pc = "gv_resp"
    /\ LET r == th[t]
           schema == NewSchema(r.resp.id, r.resp.schema, r.resp.version, r.fetchedAt)
       IN th' = [th EXCEPT ![t] =
                   IF ~r.resp.ok THEN Return(r, NilSchema, ErrHTTP)
                   ELSE IF cachingEnabled THEN [r EXCEPT !.pc = "gv_write_s", !.schema = schema]
                   ELSE Return(r, schema, NoErr)]
    /\ UNCHANGED <<registry, cachingEnabled, idSchemaCache, subjectSchemaCache,
                   idSchemaCacheLock, subjectSchemaCacheLock, sem, resets, lastReset, callsLeft>>
    /\ UNCHANGED <<codecVars, descVars, serdeVars, hcVars, schemaVars, mockVars, protoVars>>

\* the subject cache write between Lock and Unlock of
\* subjectSchemaCacheLock (lines 736-739)
GetVersionWriteSubject(t) ==
    /\ th[t].pc = "gv_write_s"
    /\ CanLock(subjectSchemaCacheLock)
    /\ subjectSchemaCache' = MapPut(subjectSchemaCache,
                                    cacheKey(th[t].subject, th[t].version),
                                    Entry(th[t].schema, resets))
    /\ th' = [th EXCEPT ![t].pc = "gv_write_i"]
    /\ UNCHANGED <<registry, cachingEnabled, idSchemaCache, idSchemaCacheLock,
                   subjectSchemaCacheLock, sem, resets, lastReset, callsLeft>>
    /\ UNCHANGED <<codecVars, descVars, serdeVars, hcVars, schemaVars, mockVars, protoVars>>

\* the id cache write between Lock and Unlock of idSchemaCacheLock, and the
\* return (lines 742-748)
GetVersionWriteId(t) ==
    /\ th[t].pc = "gv_write_i"
    /\ CanLock(idSchemaCacheLock)
    /\ idSchemaCache' = MapPut(idSchemaCache, th[t].schema.id, Entry(th[t].schema, resets))
    /\ th' = [th EXCEPT ![t] = Return(th[t], th[t].schema, NoErr)]
    /\ UNCHANGED <<registry, cachingEnabled, subjectSchemaCache, idSchemaCacheLock,
                   subjectSchemaCacheLock, sem, resets, lastReset, callsLeft>>
    /\ UNCHANGED <<codecVars, descVars, serdeVars, hcVars, schemaVars, mockVars, protoVars>>

\* CreateSchema(subject, schema, schemaType) is called: the type switch
\* returns the error or the POST is prepared (lines 464-484)
CallCreateSchema(t) ==
    /\ CanCall(t)
    /\ \E subject \in Subjects, text \in Texts, schemaType \in ClientSchemaTypes :
         LET r == [Enter(th[t], "CreateSchema", subject, "", 0)
                     EXCEPT !.text = text, !.schemaType = schemaType]
         IN th' = [th EXCEPT ![t] =
                     IF ValidSchemaType(schemaType)
                     THEN [r EXCEPT !.pc = "http_acquire", !.site = "cs"]
                     ELSE Return(r, NilSchema, ErrInvalidSchemaType)]
    /\ callsLeft' = callsLeft - 1
    /\ UNCHANGED <<registry, cachingEnabled, idSchemaCache, subjectSchemaCache,
                   idSchemaCacheLock, subjectSchemaCacheLock, sem, resets, lastReset>>
    /\ UNCHANGED <<codecVars, descVars, serdeVars, hcVars, schemaVars, mockVars, protoVars>>

\* CreateSchema after httpRequest: the error return, or
\* GetSchema(schemaResp.ID) is entered (lines 485-495, 272)
CreateSchemaGet(t) ==
    /\ th[t].pc = "cs_resp"
    /\ LET r == th[t]
       IN th' = [th EXCEPT ![t] =
                   IF ~r.resp.ok THEN Return(r, NilSchema, ErrHTTP)
                   ELSE AfterCachingCheck([r EXCEPT !.id = r.resp.id, !.nested = TRUE],
                                          "gs_read", "gs")]
    /\ UNCHANGED <<registry, cachingEnabled, idSchemaCache, subjectSchemaCache,
                   idSchemaCacheLock, subjectSchemaCacheLock, sem, resets, lastReset, callsLeft>>
    /\ UNCHANGED <<codecVars, descVars, serdeVars, hcVars, schemaVars, mockVars, protoVars>>

\* CreateSchema after GetSchema: the error return, or getCachingEnabled()
\* decides whether newSchema is stored (lines 496-500, 516)
CreateSchemaGot(t) ==
    /\ th[t].pc = "cs_got"
    /\ LET r == th[t]
       IN th' = [th EXCEPT ![t] =
                   IF r.err # NoErr THEN Return(r, NilSchema, r.err)
                   ELSE IF cachingEnabled THEN [r EXCEPT !.pc = "cs_write_s"]
                   ELSE Return(r, r.schema, NoErr)]
    /\ UNCHANGED <<registry, cachingEnabled, idSchemaCache, subjectSchemaCache,
                   idSchemaCacheLock, subjectSchemaCacheLock, sem, resets, lastReset, callsLeft>>
    /\ UNCHANGED <<codecVars, descVars, serdeVars, hcVars, schemaVars, mockVars, protoVars>>

\* the subject cache write under cacheKey(subject, Itoa(newSchema.version))
\* between Lock and Unlock of subjectSchemaCacheLock (lines 503-507)
CreateSchemaWriteSubject(t) ==
    /\ th[t].pc = "cs_write_s"
    /\ CanLock(subjectSchemaCacheLock)
    /\ subjectSchemaCache' = MapPut(subjectSchemaCache,
                                    cacheKey(th[t].subject, Itoa(th[t].schema.version)),
                                    Entry(th[t].schema, resets))
    /\ th' = [th EXCEPT ![t].pc = "cs_write_i"]
    /\ UNCHANGED <<registry, cachingEnabled, idSchemaCache, idSchemaCacheLock,
                   subjectSchemaCacheLock, sem, resets, lastReset, callsLeft>>
    /\ UNCHANGED <<codecVars, descVars, serdeVars, hcVars, schemaVars, mockVars, protoVars>>

\* the id cache write between Lock and Unlock of idSchemaCacheLock, and the
\* return (lines 510-516)
CreateSchemaWriteId(t) ==
    /\ th[t].pc = "cs_write_i"
    /\ CanLock(idSchemaCacheLock)
    /\ idSchemaCache' = MapPut(idSchemaCache, th[t].schema.id, Entry(th[t].schema, resets))
    /\ th' = [th EXCEPT ![t] = Return(th[t], th[t].schema, NoErr)]
    /\ UNCHANGED <<registry, cachingEnabled, subjectSchemaCache, idSchemaCacheLock,
                   subjectSchemaCacheLock, sem, resets, lastReset, callsLeft>>
    /\ UNCHANGED <<codecVars, descVars, serdeVars, hcVars, schemaVars, mockVars, protoVars>>

\* LookupSchema(subject, schema, schemaType) is called: the type switch
\* (lines 521-529)
CallLookupSchema(t) ==
    /\ CanCall(t)
    /\ \E subject \in Subjects, text \in Texts, schemaType \in ClientSchemaTypes :
         LET r == [Enter(th[t], "LookupSchema", subject, "", 0)
                     EXCEPT !.text = text, !.schemaType = schemaType]
         IN th' = [th EXCEPT ![t] =
                     IF ValidSchemaType(schemaType)
                     THEN [r EXCEPT !.pc = "http_acquire", !.site = "ls"]
                     ELSE Return(r, NilSchema, ErrInvalidSchemaType)]
    /\ callsLeft' = callsLeft - 1
    /\ UNCHANGED <<registry, cachingEnabled, idSchemaCache, subjectSchemaCache,
                   idSchemaCacheLock, subjectSchemaCacheLock, sem, resets, lastReset>>
    /\ UNCHANGED <<codecVars, descVars, serdeVars, hcVars, schemaVars, mockVars, protoVars>>

\* LookupSchema after httpRequest: the error return, or gotSchema is built
\* from the answer and getCachingEnabled() decides whether it is stored
\* (lines 542-568, 584)
LookupSchemaBuild(t) ==
    /\ th[t].pc = "ls_resp"
    /\ LET r == th[t]
           gotSchema == NewSchema(r.resp.id, r.resp.schema, r.resp.version, r.fetchedAt)
       IN th' = [th EXCEPT ![t] =
                   IF ~r.resp.ok THEN Return(r, NilSchema, ErrHTTP)
                   ELSE IF cachingEnabled THEN [r EXCEPT !.pc = "ls_write_s", !.schema = gotSchema]
                   ELSE Return(r, gotSchema, NoErr)]
    /\ UNCHANGED <<registry, cachingEnabled, idSchemaCache, subjectSchemaCache,
                   idSchemaCacheLock, subjectSchemaCacheLock, sem, resets, lastReset, callsLeft>>
    /\ UNCHANGED <<codecVars, descVars, serdeVars, hcVars, schemaVars, mockVars, protoVars>>

\* the subject cache write under cacheKey(subject, Itoa(gotSchema.version))
\* between Lock and Unlock of subjectSchemaCacheLock (lines 571-575)
LookupSchemaWriteSubject(t) ==
    /\ th[t].pc = "ls_write_s"
    /\ CanLock(subjectSchemaCacheLock)
    /\ subjectSchemaCache' = MapPut(subjectSchemaCache,
                                    cacheKey(th[t].subject, Itoa(th[t].schema.version)),
                                    Entry(th[t].schema, resets))
    /\ th' = [th EXCEPT ![t].pc = "ls_write_i"]
    /\ UNCHANGED <<registry, cachingEnabled, idSchemaCache, idSchemaCacheLock,
                   subjectSchemaCacheLock, sem, resets, lastReset, callsLeft>>
    /\ UNCHANGED <<codecVars, descVars, serdeVars, hcVars, schemaVars, mockVars, protoVars>>

\* the id cache write between Lock and Unlock of idSchemaCacheLock, and the
\* return (lines 578-584)
LookupSchemaWriteId(t) ==
    /\ th[t].pc = "ls_write_i"
    /\ CanLock(idSchemaCacheLock)
    /\ idSchemaCache' = MapPut(idSchemaCache, th[t].schema.id, Entry(th[t].schema, resets))
    /\ th' = [th EXCEPT ![t] = Return(th[t], th[t].schema, NoErr)]
    /\ UNCHANGED <<registry, cachingEnabled, subjectSchemaCache, idSchemaCacheLock,
                   subjectSchemaCacheLock, sem, resets, lastReset, callsLeft>>
    /\ UNCHANGED <<codecVars, descVars, serdeVars, hcVars, schemaVars, mockVars, protoVars>>

\* ResetCache() is called
CallResetCache(t) ==
    /\ CanCall(t)
    /\ th' = [th EXCEPT ![t] = [Enter(th[t], "ResetCache", "", "", 0) EXCEPT !.pc = "rc_lock_i"]]
    /\ callsLeft' = callsLeft - 1
    /\ UNCHANGED <<registry, cachingEnabled, idSchemaCache, subjectSchemaCache,
                   idSchemaCacheLock, subjectSchemaCacheLock, sem, resets, lastReset>>
    /\ UNCHANGED <<codecVars, descVars, serdeVars, hcVars, schemaVars, mockVars, protoVars>>

\* idSchemaCacheLock.Lock() (line 261)
ResetCacheLockId(t) ==
    /\ th[t].pc = "rc_lock_i"
    /\ CanLock(idSchemaCacheLock)
    /\ idSchemaCacheLock' = Lock(idSchemaCacheLock, t)
    /\ th' = [th EXCEPT ![t].pc = "rc_lock_s"]
    /\ UNCHANGED <<registry, cachingEnabled, idSchemaCache, subjectSchemaCache,
                   subjectSchemaCacheLock, sem, resets, lastReset, callsLeft>>
    /\ UNCHANGED <<codecVars, descVars, serdeVars, hcVars, schemaVars, mockVars, protoVars>>

\* subjectSchemaCacheLock.Lock() (line 262)
ResetCacheLockSubject(t) ==
    /\ th[t].pc = "rc_lock_s"
    /\ CanLock(subjectSchemaCacheLock)
    /\ subjectSchemaCacheLock' = Lock(subjectSchemaCacheLock, t)
    /\ th' = [th EXCEPT ![t].pc = "rc_replace"]
    /\ UNCHANGED <<registry, cachingEnabled, idSchemaCache, subjectSchemaCache,
                   idSchemaCacheLock, sem, resets, lastReset, callsLeft>>
    /\ UNCHANGED <<codecVars, descVars, serdeVars, hcVars, schemaVars, mockVars, protoVars>>

\* a goroutine past its fetch that has not yet stored or returned what it built
HoldsFetched(r) ==
    r.pc \in {"gs_resp", "gs_write", "gv_resp", "gv_write_s", "gv_write_i",
              "cs_got", "cs_write_s", "cs_write_i"}

\* the two maps ResetCache leaves behind
ResetCacheKeepsSubjectCache(idCache, subjectCache) ==
    [id |-> EmptyMap, subject |-> subjectCache]

ResetCacheMaps(idCache, subjectCache) ==
    [id |-> EmptyMap, subject |-> EmptyMap]

\* both maps are replaced while both locks are held (lines 263-264)
ResetCacheReplace(t) ==
    /\ th[t].pc = "rc_replace"
    /\ idSchemaCache' = ResetCacheMaps(idSchemaCache, subjectSchemaCache).id
    /\ subjectSchemaCache' = ResetCacheMaps(idSchemaCache, subjectSchemaCache).subject
    /\ resets' = resets + 1
    /\ lastReset' = [clean |-> \A u \in Threads : ~HoldsFetched(th[u]),
                     ids |-> DOMAIN idSchemaCache,
                     keys |-> DOMAIN subjectSchemaCache]
    /\ th' = [th EXCEPT ![t].pc = "rc_unlock_i"]
    /\ UNCHANGED <<registry, cachingEnabled, idSchemaCacheLock,
                   subjectSchemaCacheLock, sem, callsLeft>>
    /\ UNCHANGED <<codecVars, descVars, serdeVars, hcVars, schemaVars, mockVars, protoVars>>

\* idSchemaCacheLock.Unlock() (line 265)
ResetCacheUnlockId(t) ==
    /\ th[t].pc = "rc_unlock_i"
    /\ idSchemaCacheLock' = Unlock(idSchemaCacheLock)
    /\ th' = [th EXCEPT ![t].pc = "rc_unlock_s"]
    /\ UNCHANGED <<registry, cachingEnabled, idSchemaCache, subjectSchemaCache,
                   subjectSchemaCacheLock, sem, resets, lastReset, callsLeft>>
    /\ UNCHANGED <<codecVars, descVars, serdeVars, hcVars, schemaVars, mockVars, protoVars>>

\* subjectSchemaCacheLock.Unlock() and the return (line 266)
ResetCacheUnlockSubject(t) ==
    /\ th[t].pc = "rc_unlock_s"
    /\ subjectSchemaCacheLock' = Unlock(subjectSchemaCacheLock)
    /\ th' = [th EXCEPT ![t] = Return(th[t], NilSchema, NoErr)]
    /\ UNCHANGED <<registry, cachingEnabled, idSchemaCache, subjectSchemaCache,
                   idSchemaCacheLock, sem, resets, lastReset, callsLeft>>
    /\ UNCHANGED <<codecVars, descVars, serdeVars, hcVars, schemaVars, mockVars, protoVars>>

\* CachingEnabled(value) (lines 672-676)
CallCachingEnabled(t) ==
    /\ CanCall(t)
    /\ \E value \in BOOLEAN :
         /\ cachingEnabled' = value
         /\ th' = [u \in Threads |->
                    IF u = t
                    THEN Return(Enter(th[t], "CachingEnabled", "", "", 0), NilSchema, NoErr)
                    ELSE [th[u] EXCEPT !.off = @ /\ ~value]]
    /\ callsLeft' = callsLeft - 1
    /\ UNCHANGED <<registry, idSchemaCache, subjectSchemaCache, idSchemaCacheLock,
                   subjectSchemaCacheLock, sem, resets, lastReset>>
    /\ UNCHANGED <<codecVars, descVars, serdeVars, hcVars, schemaVars, mockVars, protoVars>>

\* another client registers a schema text under a subject
RegisterElsewhere ==
    /\ \E subject \in Subjects, text \in Texts :
         /\ Register(registry, subject, text).reg # registry
         /\ registry' = Register(registry, subject, text).reg
    /\ UNCHANGED <<cachingEnabled, idSchemaCache, subjectSchemaCache, idSchemaCacheLock,
                   subjectSchemaCacheLock, sem, th, resets, lastReset, callsLeft>>
    /\ UNCHANGED <<codecVars, descVars, serdeVars, hcVars, schemaVars, mockVars, protoVars>>

\* one step of a call of goroutine t
ClientStep(t) ==
    \/ CallGetSchema(t)
    \/ GetSchemaRead(t)
    \/ HttpAcquire(t)
    \/ HttpDo(t)
    \/ GetSchemaBuild(t)
    \/ GetSchemaWrite(t)
    \/ CallGetLatestSchema(t)
    \/ CallGetSchemaByVersion(t)
    \/ GetVersionRead(t)
    \/ GetVersionBuild(t)
    \/ GetVersionWriteSubject(t)
    \/ GetVersionWriteId(t)
    \/ CallCreateSchema(t)
    \/ CreateSchemaGet(t)
    \/ CreateSchemaGot(t)
    \/ CreateSchemaWriteSubject(t)
    \/ CreateSchemaWriteId(t)
    \/ CallLookupSchema(t)
    \/ LookupSchemaBuild(t)
    \/ LookupSchemaWriteSubject(t)
    \/ LookupSchemaWriteId(t)
    \/ CallResetCache(t)
    \/ ResetCacheLockId(t)
    \/ ResetCacheLockSubject(t)
    \/ ResetCacheReplace(t)
    \/ ResetCacheUnlockId(t)
    \/ ResetCacheUnlockSubject(t)
    \/ CallCachingEnabled(t)

NextClient ==
    \/ RegisterElsewhere
    \/ \E t \in Callers : ClientStep(t)

SpecClient == InitClient /\ [][NextClient]_vars

(***************************************************************************)
(* SpecClientShort: the calls of SpecClient, fewer of them in a behaviour  *)
(***************************************************************************)
MaxShortOps == 2

InitClientShort ==
    /\ NewClient
    /\ registry = EmptyRegistry
    /\ callsLeft = MaxShortOps
    /\ CodecIdle
    /\ DescIdle
    /\ SerdeIdle
    /\ HcIdle
    /\ SchemaIdle
    /\ MockIdle
    /\ ProtoIdle

SpecClientShort == InitClientShort /\ [][NextClient]_vars

(***************************************************************************)
(* SpecClientDelete: reads, deletions and cache resets on one client       *)
(***************************************************************************)
MaxDeleteOps == 3

DeleteOps == {"DeleteSubject", "DeleteSubjectByVersion"}

\* DeleteSubject(subject, permanent) is called: one DELETE request, with
\* ?permanent=true or without (lines 617-626)
CallDeleteSubject(t) ==
    /\ CanCall(t)
    /\ \E subject \in Subjects, permanent \in BOOLEAN :
         th' = [th EXCEPT ![t] =
                  [Enter(th[t], "DeleteSubject", subject, "", 0)
                      EXCEPT !.pc = "http_acquire", !.site = "ds",
                             !.permanent = permanent]]
    /\ callsLeft' = callsLeft - 1
    /\ UNCHANGED <<registry, cachingEnabled, idSchemaCache, subjectSchemaCache,
                   idSchemaCacheLock, subjectSchemaCacheLock, sem, resets, lastReset>>
    /\ UNCHANGED <<codecVars, descVars, serdeVars, hcVars, schemaVars, mockVars, protoVars>>

\* DeleteSubject returns the error of its request
DeleteSubjectReturn(t) ==
    /\ th[t].pc = "ds_resp"
    /\ th' = [th EXCEPT ![t] =
                Return(th[t], NilSchema, IF th[t].resp.ok THEN NoErr ELSE ErrHTTP)]
    /\ UNCHANGED <<registry, cachingEnabled, idSchemaCache, subjectSchemaCache,
                   idSchemaCacheLock, subjectSchemaCacheLock, sem, resets, lastReset,
                   callsLeft>>
    /\ UNCHANGED <<codecVars, descVars, serdeVars, hcVars, schemaVars, mockVars, protoVars>>

\* DeleteSubjectByVersion(subject, version, permanent) is called (line 631)
CallDeleteSubjectByVersion(t) ==
    /\ CanCall(t)
    /\ \E subject \in Subjects, version \in DOMAIN SchemaTexts, permanent \in BOOLEAN :
         th' = [th EXCEPT ![t] =
                  [Enter(th[t], "DeleteSubjectByVersion", subject, Itoa(version), 0)
                      EXCEPT !.pc = "http_acquire", !.site = "dv",
                             !.permanent = permanent]]
    /\ callsLeft' = callsLeft - 1
    /\ UNCHANGED <<registry, cachingEnabled, idSchemaCache, subjectSchemaCache,
                   idSchemaCacheLock, subjectSchemaCacheLock, sem, resets, lastReset>>
    /\ UNCHANGED <<codecVars, descVars, serdeVars, hcVars, schemaVars, mockVars, protoVars>>

\* after the first DELETE: return when it failed or the deletion is not
\* permanent, else send the second one with ?permanent=true (lines 632-638)
DeleteSubjectByVersionSent(t) ==
    /\ th[t].pc = "dv_resp"
    /\ th' = [th EXCEPT ![t] =
                IF ~th[t].resp.ok THEN Return(th[t], NilSchema, ErrHTTP)
                ELSE IF ~th[t].permanent THEN Return(th[t], NilSchema, NoErr)
                ELSE [th[t] EXCEPT !.pc = "http_acquire", !.site = "dp"]]
    /\ UNCHANGED <<registry, cachingEnabled, idSchemaCache, subjectSchemaCache,
                   idSchemaCacheLock, subjectSchemaCacheLock, sem, resets, lastReset,
                   callsLeft>>
    /\ UNCHANGED <<codecVars, descVars, serdeVars, hcVars, schemaVars, mockVars, protoVars>>

\* DeleteSubjectByVersion returns the error of its second request (line 639)
DeleteSubjectByVersionReturn(t) ==
    /\ th[t].pc = "dp_resp"
    /\ th' = [th EXCEPT ![t] =
                Return(th[t], NilSchema, IF th[t].resp.ok THEN NoErr ELSE ErrHTTP)]
    /\ UNCHANGED <<registry, cachingEnabled, idSchemaCache, subjectSchemaCache,
                   idSchemaCacheLock, subjectSchemaCacheLock, sem, resets, lastReset,
                   callsLeft>>
    /\ UNCHANGED <<codecVars, descVars, serdeVars, hcVars, schemaVars, mockVars, protoVars>>

\* the registry the client talks to: two subjects that share schema id 2
RegistryAtStart == [s \in Subjects |-> IF s = "s1" THEN <<1, 2>> ELSE <<2>>]

InitClientDelete ==
    /\ NewClient
    /\ registry = RegistryAtStart
    /\ callsLeft = MaxDeleteOps
    /\ CodecIdle
    /\ DescIdle
    /\ SerdeIdle
    /\ HcIdle
    /\ SchemaIdle
    /\ MockIdle
    /\ ProtoIdle

DeleteStep(t) ==
    \/ CallGetSchema(t)
    \/ GetSchemaRead(t)
    \/ HttpAcquire(t)
    \/ HttpDo(t)
    \/ GetSchemaBuild(t)
    \/ GetSchemaWrite(t)
    \/ CallGetLatestSchema(t)
    \/ CallGetSchemaByVersion(t)
    \/ GetVersionRead(t)
    \/ GetVersionBuild(t)
    \/ GetVersionWriteSubject(t)
    \/ GetVersionWriteId(t)
    \/ CallDeleteSubject(t)
    \/ DeleteSubjectReturn(t)
    \/ CallDeleteSubjectByVersion(t)
    \/ DeleteSubjectByVersionSent(t)
    \/ DeleteSubjectByVersionReturn(t)
    \/ CallResetCache(t)
    \/ ResetCacheLockId(t)
    \/ ResetCacheLockSubject(t)
    \/ ResetCacheReplace(t)
    \/ ResetCacheUnlockId(t)
    \/ ResetCacheUnlockSubject(t)

NextClientDelete == \E t \in Callers : DeleteStep(t)

SpecClientDelete == InitClientDelete /\ [][NextClientDelete]_vars

(***************************************************************************)
(* SpecClientConc: the same calls made by goroutines running side by side. *)
(* The registry starts with schemas in it and changes only through the     *)
(* CreateSchema calls of the goroutines                                    *)
(***************************************************************************)
\* total number of calls started by the concurrent goroutines
MaxConcOps == 2

\* what the registry holds when the goroutines start
ConcRegistries ==
    {[s \in Subjects |-> IF s = "s1" THEN <<1>> ELSE <<>>],
     [s \in Subjects |-> IF s = "s1" THEN <<1, 2>> ELSE <<2>>]}

InitClientConc ==
    /\ NewClient
    /\ registry \in ConcRegistries
    /\ callsLeft = MaxConcOps
    /\ CodecIdle
    /\ DescIdle
    /\ SerdeIdle
    /\ HcIdle
    /\ SchemaIdle
    /\ MockIdle
    /\ ProtoIdle

NextClientConc == \E t \in Threads : ClientStep(t)

SpecClientConc == InitClientConc /\ [][NextClientConc]_vars

(***************************************************************************)
(* SpecClientLive: every goroutine makes a call and the scheduler lets     *)
(* every call that can take a step take one: a runnable goroutine runs, a  *)
(* dispatched request is answered, a free lock or semaphore slot is given  *)
(* to a goroutine waiting for it                                           *)
(***************************************************************************)
InitClientLive ==
    /\ NewClient
    /\ registry \in ConcRegistries
    /\ callsLeft = Cardinality(Threads)
    /\ CodecIdle
    /\ DescIdle
    /\ SerdeIdle
    /\ HcIdle
    /\ SchemaIdle
    /\ MockIdle
    /\ ProtoIdle

\* a step of goroutine t inside a call it has begun
Continue(t) == th[t].pc # "done" /\ ClientStep(t)

SpecClientLive ==
    /\ InitClientLive
    /\ [][NextClientConc]_vars
    /\ \A t \in Threads : WF_vars(Continue(t))


(***************************************************************************)
(* SpecHeaderCache: two goroutines call Get and Put on one HeaderCache.    *)
(* Put holds the mutex from its first line to its return; Get takes it     *)
(* only around the assignment that makes the map.                          *)
(***************************************************************************)
MaxHcOps == 3

HcNames == {"MessageA", "MessageG"}

\* the header generateHeader makes for a message type of a schema: one
\* non-nil slice for each (schema id, type name)
HcHeader(id, name) == [arr |-> 2 * id + (IF name = "MessageA" THEN 0 ELSE 1), len |-> 6]

HcResult(r) == [header |-> r.header, ok |-> r.ok, fault |-> FALSE]

\* a map read that runs while another goroutine writes the map: the runtime
\* stops the program ("concurrent map read and map write")
HcFault == [header |-> NilSlice, ok |-> FALSE, fault |-> TRUE]

InitHeaderCache ==
    /\ hcMu = NoThread
    /\ hcTh = [t \in Threads |-> HcIdleThread]
    /\ hcPut = {}
    /\ hcBare = {}
    /\ hcLeft = MaxHcOps
    /\ CodecIdle
    /\ DescIdle
    /\ SerdeIdle
    /\ ClientIdle
    /\ SchemaIdle
    /\ MockIdle
    /\ ProtoIdle

HcUnchanged == UNCHANGED <<resolverSet, hookSet, heap, outs, issued, last, ncalls>>

\* the access of HeaderCache.m at source line `line` by goroutine t
HcAccess(t, line) == IF hcMu = t THEN hcBare ELSE hcBare \cup {line}

CallGet(t) ==
    /\ hcTh[t].pc = "done"
    /\ hcLeft > 0
    /\ hcLeft' = hcLeft - 1
    /\ \E id \in SchemaIds, name \in HcNames :
          hcTh' = [hcTh EXCEPT ![t] =
                     [HcIdleThread EXCEPT !.pc = "g_check", !.op = "Get",
                                          !.id = id, !.name = name,
                                          !.later = (<<id, name>> \in hcPut)]]
    /\ UNCHANGED <<hcMu, hcPut, hcBare, headerCache>>
    /\ HcUnchanged
    /\ UNCHANGED <<codecVars, descVars, clientVars, schemaVars, mockVars, protoVars>>

\* if p.m == nil, read without the mutex
GetCheck(t) ==
    /\ hcTh[t].pc = "g_check"
    /\ hcBare' = HcAccess(t, "403")
    /\ hcTh' = [hcTh EXCEPT ![t].pc = IF headerCache.made THEN "g_read" ELSE "g_make"]
    /\ UNCHANGED <<hcMu, hcPut, hcLeft, headerCache>>
    /\ HcUnchanged
    /\ UNCHANGED <<codecVars, descVars, clientVars, schemaVars, mockVars, protoVars>>

\* p.mu.Lock(); p.m = make(...); p.mu.Unlock()
GetMake(t) ==
    /\ hcTh[t].pc = "g_make"
    /\ hcMu = NoThread
    /\ headerCache' = HeaderCacheInit(headerCache)
    /\ hcTh' = [hcTh EXCEPT ![t].pc = "g_read"]
    /\ UNCHANGED <<hcMu, hcPut, hcBare, hcLeft>>
    /\ HcUnchanged
    /\ UNCHANGED <<codecVars, descVars, clientVars, schemaVars, mockVars, protoVars>>

\* the other goroutine is at the store of its Put
HcWriterAtStore(t) == \E u \in Threads \ {t} : hcTh[u].pc = "p_store"

\* p.m[schemaId] and p.m[schemaId][name], read without the mutex, and return
GetRead(t) ==
    /\ hcTh[t].pc = "g_read"
    /\ hcBare' = HcAccess(t, "408")
    /\ \E res \in {HcResult(HeaderCacheGet(headerCache, hcTh[t].id, hcTh[t].name))}
                  \cup (IF HcWriterAtStore(t) THEN {HcFault} ELSE {}) :
          hcTh' = [hcTh EXCEPT ![t].pc = "done", ![t].res = res]
    /\ UNCHANGED <<hcMu, hcPut, hcLeft, headerCache>>
    /\ HcUnchanged
    /\ UNCHANGED <<codecVars, descVars, clientVars, schemaVars, mockVars, protoVars>>

CallPut(t) ==
    /\ hcTh[t].pc = "done"
    /\ hcLeft > 0
    /\ hcLeft' = hcLeft - 1
    /\ \E id \in SchemaIds, name \in HcNames :
          hcTh' = [hcTh EXCEPT ![t] =
                     [HcIdleThread EXCEPT !.pc = "p_lock", !.op = "Put",
                                          !.id = id, !.name = name]]
    /\ UNCHANGED <<hcMu, hcPut, hcBare, headerCache>>
    /\ HcUnchanged
    /\ UNCHANGED <<codecVars, descVars, clientVars, schemaVars, mockVars, protoVars>>

\* p.mu.Lock(); defer p.mu.Unlock()
PutLock(t) ==
    /\ hcTh[t].pc = "p_lock"
    /\ hcMu = NoThread
    /\ hcMu' = t
    /\ hcTh' = [hcTh EXCEPT ![t].pc = "p_make"]
    /\ UNCHANGED <<hcPut, hcBare, hcLeft, headerCache>>
    /\ HcUnchanged
    /\ UNCHANGED <<codecVars, descVars, clientVars, schemaVars, mockVars, protoVars>>

\* if p.m == nil { p.m = make(...) }
PutMake(t) ==
    /\ hcTh[t].pc = "p_make"
    /\ hcBare' = HcAccess(t, "418")
    /\ headerCache' = IF headerCache.made THEN headerCache ELSE HeaderCacheInit(headerCache)
    /\ hcTh' = [hcTh EXCEPT ![t].pc = "p_store"]
    /\ UNCHANGED <<hcMu, hcPut, hcLeft>>
    /\ HcUnchanged
    /\ UNCHANGED <<codecVars, descVars, clientVars, schemaVars, mockVars, protoVars>>

\* the inner map is made when missing and the header is stored in it
PutStore(t) ==
    /\ hcTh[t].pc = "p_store"
    /\ hcBare' = HcAccess(t, "422")
    /\ headerCache' = HeaderCachePut(headerCache, hcTh[t].id, hcTh[t].name,
                                     HcHeader(hcTh[t].id, hcTh[t].name))
    /\ hcTh' = [hcTh EXCEPT ![t].pc = "p_unlock"]
    /\ UNCHANGED <<hcMu, hcPut, hcLeft>>
    /\ HcUnchanged
    /\ UNCHANGED <<codecVars, descVars, clientVars, schemaVars, mockVars, protoVars>>

\* the deferred Unlock; Put returns
PutUnlock(t) ==
    /\ hcTh[t].pc = "p_unlock"
    /\ hcMu = t
    /\ hcMu' = NoThread
    /\ hcPut' = hcPut \cup {<<hcTh[t].id, hcTh[t].name>>}
    /\ hcTh' = [hcTh EXCEPT ![t].pc = "done"]
    /\ UNCHANGED <<hcBare, hcLeft, headerCache>>
    /\ HcUnchanged
    /\ UNCHANGED <<codecVars, descVars, clientVars, schemaVars, mockVars, protoVars>>

NextHeaderCache ==
    \E t \in Threads :
        \/ CallGet(t)
        \/ GetCheck(t)
        \/ GetMake(t)
        \/ GetRead(t)
        \/ CallPut(t)
        \/ PutLock(t)
        \/ PutMake(t)
        \/ PutStore(t)
        \/ PutUnlock(t)

SpecHeaderCache == InitHeaderCache /\ [][NextHeaderCache]_vars


(***************************************************************************)
(* SpecSchema: one Schema value, as GetSchema builds and caches it, whose  *)
(* accessors are called by two goroutines.                                 *)
(***************************************************************************)
MaxSchemaOps == 3

\* schema texts by what the two compilers make of them:
\*   "string"  {"type":"string"}      an Avro schema and a JSON schema
\*   "record"  an Avro record          an Avro schema only
\*   "object"  {"type":"object"}      a JSON schema only
\*   "proto"   a Protobuf file         neither
SchemaObjTexts == {"string", "record", "object", "proto"}

\* goavro.NewCodec(text) returns no error
NewCodecOk(text) == text \in {"string", "record"}

\* jsonschema.CompileString("schema.json", text) returns no error
CompileStringOk(text) == text \in {"string", "object"}

\* the codec made when the Schema is built: nil unless codec creation is
\* enabled, and then the Schema exists only if the codec could be made
CodecsAtCreation(text) == {0} \cup (IF NewCodecOk(text) THEN {1} ELSE {})

\* the pointer a compiler returns to the accessor call started when
\* `left` calls remained: a new one for each call
NewHandle(left) == MaxSchemaOps - left + 2

InitSchema ==
    /\ \E text \in SchemaObjTexts, codec \in {0, 1} :
          /\ codec \in CodecsAtCreation(text)
          /\ schemaObj = [id |-> 1, schema |-> text, version |-> 1,
                          references |-> <<>>, codec |-> codec, jsonSchema |-> 0]
    /\ schemaTh = [t \in Threads |-> SchemaIdleThread]
    /\ schemaWrites = {}
    /\ schemaLeft = MaxSchemaOps
    /\ CodecIdle
    /\ DescIdle
    /\ SerdeIdle
    /\ ClientIdle
    /\ HcIdle
    /\ MockIdle
    /\ ProtoIdle

\* ID(), Schema(), SchemaType(), Version(), References(): return the field
ReadField(t) ==
    /\ schemaTh[t].pc = "done"
    /\ schemaLeft > 0
    /\ schemaLeft' = schemaLeft - 1
    /\ \E op \in {"ID", "Schema", "Version", "References"} :
          schemaTh' = [schemaTh EXCEPT ![t] =
              [SchemaIdleThread EXCEPT !.op = op,
                  !.res = IF op = "ID" THEN schemaObj.id
                          ELSE IF op = "Version" THEN schemaObj.version ELSE 0]]
    /\ UNCHANGED <<schemaObj, schemaWrites>>
    /\ UNCHANGED <<codecVars, descVars, serdeVars, clientVars, hcVars, mockVars, protoVars>>

CallCodec(t) ==
    /\ schemaTh[t].pc = "done"
    /\ schemaLeft > 0
    /\ schemaLeft' = schemaLeft - 1
    /\ schemaTh' = [schemaTh EXCEPT ![t] =
           [SchemaIdleThread EXCEPT !.pc = "codec_check", !.op = "Codec",
                                    !.handle = NewHandle(schemaLeft)]]
    /\ UNCHANGED <<schemaObj, schemaWrites>>
    /\ UNCHANGED <<codecVars, descVars, serdeVars, clientVars, hcVars, mockVars, protoVars>>

\* if schema.codec == nil
CodecCheck(t) ==
    /\ schemaTh[t].pc = "codec_check"
    /\ schemaTh' = [schemaTh EXCEPT ![t].pc =
           IF schemaObj.codec = 0 THEN "codec_new" ELSE "codec_return"]
    /\ UNCHANGED <<schemaObj, schemaWrites, schemaLeft>>
    /\ UNCHANGED <<codecVars, descVars, serdeVars, clientVars, hcVars, mockVars, protoVars>>

\* codec, err := goavro.NewCodec(...); if err == nil { schema.codec = codec }
CodecNew(t) ==
    /\ schemaTh[t].pc = "codec_new"
    /\ IF NewCodecOk(schemaObj.schema)
       THEN /\ schemaObj' = [schemaObj EXCEPT !.codec = schemaTh[t].handle]
            /\ schemaWrites' = schemaWrites \cup {"codec"}
       ELSE UNCHANGED <<schemaObj, schemaWrites>>
    /\ schemaTh' = [schemaTh EXCEPT ![t].pc = "codec_return"]
    /\ UNCHANGED schemaLeft
    /\ UNCHANGED <<codecVars, descVars, serdeVars, clientVars, hcVars, mockVars, protoVars>>

\* return schema.codec
CodecReturn(t) ==
    /\ schemaTh[t].pc = "codec_return"
    /\ schemaTh' = [schemaTh EXCEPT ![t].pc = "done", ![t].res = schemaObj.codec]
    /\ UNCHANGED <<schemaObj, schemaWrites, schemaLeft>>
    /\ UNCHANGED <<codecVars, descVars, serdeVars, clientVars, hcVars, mockVars, protoVars>>

CallJsonSchema(t) ==
    /\ schemaTh[t].pc = "done"
    /\ schemaLeft > 0
    /\ schemaLeft' = schemaLeft - 1
    /\ schemaTh' = [schemaTh EXCEPT ![t] =
           [SchemaIdleThread EXCEPT !.pc = "json_check", !.op = "JsonSchema",
                                    !.handle = NewHandle(schemaLeft)]]
    /\ UNCHANGED <<schemaObj, schemaWrites>>
    /\ UNCHANGED <<codecVars, descVars, serdeVars, clientVars, hcVars, mockVars, protoVars>>

\* if schema.jsonSchema == nil
JsonSchemaCheck(t) ==
    /\ schemaTh[t].pc = "json_check"
    /\ schemaTh' = [schemaTh EXCEPT ![t].pc =
           IF schemaObj.jsonSchema = 0 THEN "json_compile" ELSE "json_return"]
    /\ UNCHANGED <<schemaObj, schemaWrites, schemaLeft>>
    /\ UNCHANGED <<codecVars, descVars, serdeVars, clientVars, hcVars, mockVars, protoVars>>

\* jsonSchema, err := jsonschema.CompileString(...);
\* if err == nil { schema.jsonSchema = jsonSchema }
JsonSchemaCompile(t) ==
    /\ schemaTh[t].pc = "json_compile"
    /\ IF CompileStringOk(schemaObj.schema)
       THEN /\ schemaObj' = [schemaObj EXCEPT !.jsonSchema = schemaTh[t].handle]
            /\ schemaWrites' = schemaWrites \cup {"jsonSchema"}
       ELSE UNCHANGED <<schemaObj, schemaWrites>>
    /\ schemaTh' = [schemaTh EXCEPT ![t].pc = "json_return"]
    /\ UNCHANGED schemaLeft
    /\ UNCHANGED <<codecVars, descVars, serdeVars, clientVars, hcVars, mockVars, protoVars>>

\* return schema.jsonSchema
JsonSchemaReturn(t) ==
    /\ schemaTh[t].pc = "json_return"
    /\ schemaTh' = [schemaTh EXCEPT ![t].pc = "done", ![t].res = schemaObj.jsonSchema]
    /\ UNCHANGED <<schemaObj, schemaWrites, schemaLeft>>
    /\ UNCHANGED <<codecVars, descVars, serdeVars, clientVars, hcVars, mockVars, protoVars>>

NextSchema ==
    \E t \in Threads :
        \/ ReadField(t)
        \/ CallCodec(t)
        \/ CodecCheck(t)
        \/ CodecNew(t)
        \/ CodecReturn(t)
        \/ CallJsonSchema(t)
        \/ JsonSchemaCheck(t)
        \/ JsonSchemaCompile(t)
        \/ JsonSchemaReturn(t)

SpecSchema == InitSchema /\ [][NextSchema]_vars


(***************************************************************************)
(* SpecMock: the in-memory MockSchemaRegistryClient                        *)
(***************************************************************************)
MaxMockOps == 2

\* a schema text is its JSON (one word here) and the white space around it
CR == "\r"
LF == "\n"
SP == " "
MockTexts == {<<"string">>, <<"proto">>, <<"string", LF>>, <<"string", CR, LF>>}

\* the ids and the versions handed to SetSchema and to the deletions
MockIdValues == {-1, 5}
MockVersionValues == {0, 3}

errInvalidSchemaType == "invalid schema type. valid values are Avro, Json, or Protobuf"
errSchemaAlreadyRegistered == "schema already registered"
errSchemaNotFound == "schema not found"
errSubjectNotFound == "subject not found"
ErrCodec == "codec"

\* a text that keeps its line breaks
ReplaceNothing(text) == text

\* avroRegex.ReplaceAllString(schema, " ") with avroRegex = `\r?\n`
RECURSIVE ReplaceAllString(_)
ReplaceAllString(text) ==
    IF text = <<>> THEN <<>>
    ELSE IF Len(text) >= 2 /\ text[1] = CR /\ text[2] = LF
    THEN <<SP>> \o ReplaceAllString(SubSeq(text, 3, Len(text)))
    ELSE IF text[1] = LF THEN <<SP>> \o ReplaceAllString(Tail(text))
    ELSE <<text[1]>> \o ReplaceAllString(Tail(text))

\* the text SetSchema goes on with after its switch on the schema type
NormalisedFor(schemaType, text) ==
    IF schemaType \in {Avro, Json} THEN ReplaceAllString(text) ELSE text

\* getCodecForSchema(schema) returns no error: the JSON parser skips white
\* space, line breaks included
MockCodecOk(text) ==
    LET words == SelectSeq(text, LAMBDA c : c \notin {CR, LF, SP})
    IN  Len(words) = 1 /\ NewCodecOk(words[1])

\* sort.Ints of the keys of a version map
RECURSIVE SortInts(_)
SortInts(S) ==
    IF S = {} THEN <<>>
    ELSE LET m == CHOOSE x \in S : \A y \in S : y <= x
         IN  Append(SortInts(S \ {m}), m)

\* allVersions(subject): the versions of the subject in ascending order
allVersions(sv, subject) ==
    IF subject \in DOMAIN sv THEN SortInts(DOMAIN sv[subject]) ELSE <<>>

\* one more than the number of versions the subject holds
countPlusOne(versions) == Len(versions) + 1

\* versions[len(versions)-1] + 1
latestPlusOne(versions) == versions[Len(versions)] + 1

\* generateVersion(id, subject, schema, schemaType, givenVersion) on the
\* maps sv and ids: the maps it leaves, the Schema and the error
generateVersion(sv, ids, id, subject, schema, schemaType, givenVersion) ==
    LET existingMap == IF subject \in DOMAIN sv THEN sv[subject] ELSE EmptyMap
        currentVersion ==
            IF DOMAIN existingMap # {} /\ givenVersion <= 0
            THEN latestPlusOne(allVersions(sv, subject))
            ELSE IF givenVersion >= 0 THEN givenVersion ELSE 1
        schemaToRegister ==
            [id |-> id, schema |-> schema, schemaType |-> schemaType,
             version |-> currentVersion]
    IN  IF ~MockCodecOk(schema)
        THEN [sv |-> sv, ids |-> ids, res |-> NoMockSchema, err |-> ErrCodec]
        ELSE [sv |-> MapPut(sv, subject, MapPut(existingMap, currentVersion, schemaToRegister)),
              ids |-> MapPut(ids, id, schemaToRegister),
              res |-> schemaToRegister, err |-> NoErr]

\* a counter that SetSchema leaves alone
keepCounter(counter, id) == counter

\* if id > mck.idCounter { mck.idCounter = id }
raiseCounter(counter, id) == IF id > counter THEN id ELSE counter

\* a check for duplicates that finds none
neverRegistered(versionMap, schema) == FALSE

\* the loop over the versions of the subject: existing.schema == schema
alreadyRegistered(versionMap, schema) ==
    \E v \in DOMAIN versionMap : versionMap[v].schema = schema

\* SetSchema(id, subject, schema, schemaType, version) when the counter is
\* counter: the counter and maps it leaves, the Schema and the error
SetSchema(sv, ids, counter, id, subject, text, schemaType, version) ==
    LET c == raiseCounter(counter, id)
        schema == NormalisedFor(schemaType, text)
        fail(err) == [sv |-> sv, ids |-> ids, res |-> NoMockSchema, err |-> err, counter |-> c]
        gen == generateVersion(sv, ids, id, subject, schema, schemaType, version)
        done == [sv |-> gen.sv, ids |-> gen.ids, res |-> gen.res, err |-> gen.err, counter |-> c]
    IN  IF ~ValidSchemaType(schemaType) THEN fail(errInvalidSchemaType)
        ELSE IF subject \notin DOMAIN sv THEN done
        ELSE IF alreadyRegistered(sv[subject], schema) THEN fail(errSchemaAlreadyRegistered)
        ELSE done

\* GetSchemaByVersion(subject, version)
MockGetSchemaByVersion(sv, subject, version) ==
    IF subject \notin DOMAIN sv THEN [res |-> NoMockSchema, err |-> errSubjectNotFound]
    ELSE IF version \notin DOMAIN sv[subject]
    THEN [res |-> NoMockSchema, err |-> errSchemaNotFound]
    ELSE [res |-> sv[subject][version], err |-> NoErr]

\* a latest schema that is the first version instead of the last
firstOf(versions) == versions[1]

\* latestVersion := versions[len(versions)-1]
lastOf(versions) == versions[Len(versions)]

\* GetLatestSchema(subject); the error of GetSchemaByVersion is dropped
MockGetLatestSchemaResult(sv, subject) ==
    LET versions == allVersions(sv, subject)
    IN  IF Len(versions) = 0 THEN [res |-> NoMockSchema, err |-> errSchemaNotFound]
        ELSE [res |-> MockGetSchemaByVersion(sv, subject, lastOf(versions)).res,
              err |-> NoErr]

\* what mockLast keeps of a call
MockCall(op, subject, text, schemaType, version, out) ==
    [op |-> op, subject |-> subject, text |-> text, schemaType |-> schemaType,
     version |-> version, ok |-> (out.err = NoErr), err |-> out.err, res |-> out.res,
     idBefore |-> idCounter,
     versionsBefore |-> IF subject \in DOMAIN schemaVersions
                        THEN DOMAIN schemaVersions[subject] ELSE {},
     id |-> 0, pairs |-> {}]

\* the mock a test starts from: a new one, or one in which
\* SetSchema(5, "s1", text, Avro, 3) has registered version 3 of a subject
MockStarts ==
    {[sv |-> EmptyMap, ids |-> EmptyMap, counter |-> 0],
     LET out == SetSchema(EmptyMap, EmptyMap, 0, 5, "s1", <<"string">>, Avro, 3)
     IN  [sv |-> out.sv, ids |-> out.ids, counter |-> out.counter]}

InitMock ==
    /\ \E m \in MockStarts :
          /\ schemaVersions = m.sv
          /\ schemaIDs = m.ids
          /\ idCounter = m.counter
    /\ mockLast = NoMockCall
    /\ mockLeft = MaxMockOps
    /\ CodecIdle
    /\ DescIdle
    /\ SerdeIdle
    /\ ClientIdle
    /\ HcIdle
    /\ SchemaIdle
    /\ ProtoIdle

\* CreateSchema(subject, schema, schemaType): mck.idCounter++, then SetSchema
\* with the new counter as the id and -1 as the version
MockCreateSchema ==
    /\ mockLeft > 0
    /\ \E subject \in Subjects, schema \in MockTexts, schemaType \in SchemaTypeValues :
          LET out == SetSchema(schemaVersions, schemaIDs, idCounter + 1, idCounter + 1,
                               subject, schema, schemaType, -1)
          IN  /\ schemaVersions' = out.sv
              /\ schemaIDs' = out.ids
              /\ idCounter' = out.counter
              /\ mockLast' = MockCall("CreateSchema", subject, schema, schemaType, -1, out)
    /\ mockLeft' = mockLeft - 1
    /\ UNCHANGED <<codecVars, descVars, serdeVars, clientVars, hcVars, schemaVars, protoVars>>

MockSetSchema ==
    /\ mockLeft > 0
    /\ \E id \in MockIdValues, subject \in Subjects, schema \in MockTexts,
          schemaType \in SchemaTypeValues, version \in MockVersionValues :
          LET out == SetSchema(schemaVersions, schemaIDs, idCounter, id,
                               subject, schema, schemaType, version)
          IN  /\ schemaVersions' = out.sv
              /\ schemaIDs' = out.ids
              /\ idCounter' = out.counter
              /\ mockLast' = MockCall("SetSchema", subject, schema, schemaType, version, out)
    /\ mockLeft' = mockLeft - 1
    /\ UNCHANGED <<codecVars, descVars, serdeVars, clientVars, hcVars, schemaVars, protoVars>>

\* GetLatestSchema(subject)
MockGetLatestSchema ==
    /\ mockLeft > 0
    /\ \E subject \in Subjects :
          mockLast' = MockCall("GetLatestSchema", subject, <<>>, "", 0,
                               MockGetLatestSchemaResult(schemaVersions, subject))
    /\ mockLeft' = mockLeft - 1
    /\ UNCHANGED <<schemaVersions, schemaIDs, idCounter>>
    /\ UNCHANGED <<codecVars, descVars, serdeVars, clientVars, hcVars, schemaVars, protoVars>>

\* DeleteSubject(subject): delete(mck.schemaVersions, subject)
MockDeleteSubject ==
    /\ mockLeft > 0
    /\ \E subject \in Subjects :
          /\ schemaVersions' = [x \in DOMAIN schemaVersions \ {subject} |-> schemaVersions[x]]
          /\ mockLast' = MockCall("DeleteSubject", subject, <<>>, "", 0,
                                  [err |-> NoErr, res |-> NoMockSchema])
    /\ mockLeft' = mockLeft - 1
    /\ UNCHANGED <<schemaIDs, idCounter>>
    /\ UNCHANGED <<codecVars, descVars, serdeVars, clientVars, hcVars, schemaVars, protoVars>>

\* a deletion that drops every version of the subject
deleteAllVersions(versionMap, version) == EmptyMap

\* delete(mck.schemaVersions[subject], schemaVersion)
deleteVersion(versionMap, version) ==
    [v \in DOMAIN versionMap \ {version} |-> versionMap[v]]

\* DeleteSubjectByVersion(subject, version)
MockDeleteSubjectByVersion ==
    /\ mockLeft > 0
    /\ \E subject \in Subjects, version \in MockVersionValues :
          LET err == IF subject \notin DOMAIN schemaVersions THEN errSubjectNotFound
                     ELSE IF version \notin DOMAIN schemaVersions[subject]
                     THEN errSchemaNotFound ELSE NoErr
          IN  /\ schemaVersions' =
                    IF err # NoErr THEN schemaVersions
                    ELSE [schemaVersions EXCEPT ![subject] = deleteVersion(@, version)]
              /\ mockLast' = MockCall("DeleteSubjectByVersion", subject, <<>>, "", version,
                                      [err |-> err, res |-> NoMockSchema])
    /\ mockLeft' = mockLeft - 1
    /\ UNCHANGED <<schemaIDs, idCounter>>
    /\ UNCHANGED <<codecVars, descVars, serdeVars, clientVars, hcVars, schemaVars, protoVars>>

\* schema ids GetSubjectVersionsById is asked for
MockLookupIds == {1, 5, 6}

\* for schemaVersionKey := range schemaVersionsMap: a pair for every version
\* of the subject
pairsOfSubject(sv, subject) == {<<subject, v>> : v \in DOMAIN sv[subject]}

\* GetSubjectVersionsById(schemaID): the range over the map of subjects
\* visits them in any order and the call returns at the first subject that
\* holds a version with the id
GetSubjectVersionsByIdResults(sv, schemaID) ==
    LET holders == {s \in DOMAIN sv : \E v \in DOMAIN sv[s] : sv[s][v].id = schemaID}
    IN  IF holders = {} THEN {[pairs |-> {}, err |-> errSchemaNotFound]}
        ELSE {[pairs |-> pairsOfSubject(sv, s), err |-> NoErr] : s \in holders}

MockGetSubjectVersionsById ==
    /\ mockLeft > 0
    /\ \E schemaID \in MockLookupIds :
          \E out \in GetSubjectVersionsByIdResults(schemaVersions, schemaID) :
             mockLast' = [MockCall("GetSubjectVersionsById", "", <<>>, "", 0,
                                   [err |-> out.err, res |-> NoMockSchema])
                             EXCEPT !.id = schemaID, !.pairs = out.pairs]
    /\ mockLeft' = mockLeft - 1
    /\ UNCHANGED <<schemaVersions, schemaIDs, idCounter>>
    /\ UNCHANGED <<codecVars, descVars, serdeVars, clientVars, hcVars, schemaVars, protoVars>>

NextMock ==
    \/ MockGetSubjectVersionsById
    \/ MockCreateSchema
    \/ MockSetSchema
    \/ MockGetLatestSchema
    \/ MockDeleteSubject
    \/ MockDeleteSubjectByVersion

SpecMock == InitMock /\ [][NextMock]_vars

(***************************************************************************)
(* SpecEither: an application holds one implementation of the client       *)
(* interface, the SchemaRegistryClient or the mock, and calls it           *)
(***************************************************************************)
\* number of calls made on the implementation the application holds
MaxEitherOps == 2

InitEither ==
    /\ \/ /\ NewClient
          /\ registry = EmptyRegistry
          /\ callsLeft = MaxEitherOps
          /\ MockIdle
       \/ /\ ClientIdle
          /\ \E m \in MockStarts :
                /\ schemaVersions = m.sv
                /\ schemaIDs = m.ids
                /\ idCounter = m.counter
          /\ mockLast = NoMockCall
          /\ mockLeft = MaxEitherOps
    /\ CodecIdle
    /\ DescIdle
    /\ SerdeIdle
    /\ HcIdle
    /\ SchemaIdle
    /\ ProtoIdle

\* the application holds the SchemaRegistryClient: it has calls to make on
\* it or has made one
HoldsClient == callsLeft > 0 \/ \E t \in Callers : th[t].op # "none"

NextEither ==
    \/ HoldsClient /\ NextClient
    \/ NextMock

SpecEither == InitEither /\ [][NextEither]_vars


(***************************************************************************)
(* SpecProto: the protobuf example's schemaRegistryClient, which keeps the *)
(* parsed file descriptor of each schema id in its protoCache              *)
(***************************************************************************)
\* number of GetProtoSchema calls and registry changes
MaxProtoOps == 3

\* schema ids asked for; 0 is the id of "really bad data on the topic"
ProtoIds == {0, 1, 2}

\* what the registry holds under a schema id:
\*   "proto"    a protobuf schema that parses on its own
\*   "import"   a protobuf schema that imports one other registered file
\*   "garbage"  a schema of type PROTOBUF whose text does not parse
\*   "json"     a schema of another type
\*   "untyped"  a schema answered without schemaType (the registry omits it for Avro)
\*   "absent"   nothing: GetSchema returns nil and an error
ProtoKinds == {"proto", "import", "garbage", "json", "untyped", "absent"}

ErrNonProtobufSchema == "schema is not a Protobuf schema"
ErrParseFiles == "ParseFiles failed"

\* protoCache.Get
protoCacheGet(m, id) ==
    IF id \in DOMAIN m THEN [fd |-> m[id], ok |-> TRUE] ELSE [fd |-> 0, ok |-> FALSE]

\* a Put that stores nothing
protoCachePutNothing(m, id, fd) == m

\* protoCache.Put: p.m[schemaId] = fd
protoCachePut(m, id, fd) == MapPut(m, id, fd)

\* the Accessor of the parser, called with the schema id as the file name:
\* schema, err = s.GetSchema(sid) assigns the err of the if statement, so
\* the err tested after it is always nil; a failed fetch leaves schema nil
\* and schema.SchemaType() dereferences it, and a schema without schemaType
\* makes *(schema.SchemaType()) dereference nil
\* [fault, err, text]
Accessor(kind) ==
    IF kind \in {"absent", "untyped"}
    THEN [fault |-> TRUE, err |-> NoErr, text |-> "none"]
    ELSE IF kind = "json"
         THEN [fault |-> FALSE, err |-> ErrNonProtobufSchema, text |-> "none"]
         ELSE [fault |-> FALSE, err |-> NoErr, text |-> kind]

\* parser.ParseFiles(strconv.Itoa(schemaId)): one Accessor call for the
\* schema, one more (GetLatestSchema by file name) for the file it imports;
\* one file name is parsed into one descriptor, so len(fileDescriptors) is 1
\* whenever err is nil
\* [fault, err, made, fetched]
ParseFiles(reg, id) ==
    LET file == Accessor(reg[id])
    IN  IF file.fault THEN [fault |-> TRUE, err |-> NoErr, made |-> FALSE, fetched |-> 1]
        ELSE IF file.err # NoErr
             THEN [fault |-> FALSE, err |-> file.err, made |-> FALSE, fetched |-> 1]
             ELSE IF file.text = "garbage"
                  THEN [fault |-> FALSE, err |-> ErrParseFiles, made |-> FALSE, fetched |-> 1]
                  ELSE [fault |-> FALSE, err |-> NoErr, made |-> TRUE,
                        fetched |-> IF file.text = "import" THEN 2 ELSE 1]

\* GetProtoSchema(ctx, schemaId); descriptors are numbered as they are built
\* [fd, err, fault, fetched, parsed, cache]
GetProtoSchema(reg, m, built, id) ==
    LET hit == protoCacheGet(m, id)
        out == ParseFiles(reg, id)
    IN  IF hit.ok
        THEN [fd |-> hit.fd, err |-> NoErr, fault |-> FALSE,
              fetched |-> 0, parsed |-> 0, cache |-> m]
        ELSE IF id = 0
             THEN [fd |-> 0, err |-> ErrNonProtobufSchema, fault |-> FALSE,
                   fetched |-> 0, parsed |-> 0, cache |-> m]
             ELSE IF out.fault \/ out.err # NoErr
                  THEN [fd |-> 0, err |-> out.err, fault |-> out.fault,
                        fetched |-> out.fetched, parsed |-> 1, cache |-> m]
                  ELSE [fd |-> built + 1, err |-> NoErr, fault |-> FALSE,
                        fetched |-> out.fetched, parsed |-> 1,
                        cache |-> protoCachePut(m, id, built + 1)]

\* the descriptors that the calls up to and including call l have returned
\* without an error, by schema id: the first one of each id
Succeeded(l) ==
    IF l.called /\ l.err = NoErr /\ ~l.fault /\ l.schemaId \notin DOMAIN l.earlier
    THEN MapPut(l.earlier, l.schemaId, l.fd)
    ELSE l.earlier

InitProto ==
    /\ protoReg \in [ProtoIds \ {0} -> ProtoKinds]
    /\ protoCache = EmptyMap
    /\ protoParsed = 0
    /\ protoLast = NoProtoCall
    /\ protoLeft = MaxProtoOps
    /\ CodecIdle
    /\ DescIdle
    /\ SerdeIdle
    /\ ClientIdle
    /\ HcIdle
    /\ SchemaIdle
    /\ MockIdle

CallGetProtoSchema ==
    /\ protoLeft > 0
    /\ \E id \in ProtoIds :
          LET out == GetProtoSchema(protoReg, protoCache, protoParsed, id)
          IN  /\ protoCache' = out.cache
              /\ protoParsed' = IF out.fd > protoParsed THEN out.fd ELSE protoParsed
              /\ protoLast' = [schemaId |-> id, fd |-> out.fd, err |-> out.err,
                               fault |-> out.fault, fetched |-> out.fetched,
                               parsed |-> out.parsed, called |-> TRUE,
                               cacheBefore |-> protoCache,
                               earlier |-> Succeeded(protoLast)]
    /\ protoLeft' = protoLeft - 1
    /\ UNCHANGED protoReg
    /\ UNCHANGED <<codecVars, descVars, serdeVars, clientVars, hcVars, schemaVars, mockVars>>

\* somebody registers, replaces or deletes the schema of an id
ProtoRegistryChanges ==
    /\ protoLeft > 0
    /\ \E id \in ProtoIds \ {0}, kind \in ProtoKinds :
          /\ kind # protoReg[id]
          /\ protoReg' = [protoReg EXCEPT ![id] = kind]
    /\ protoLeft' = protoLeft - 1
    /\ UNCHANGED <<protoCache, protoParsed, protoLast>>
    /\ UNCHANGED <<codecVars, descVars, serdeVars, clientVars, hcVars, schemaVars, mockVars>>

NextProto == CallGetProtoSchema \/ ProtoRegistryChanges

SpecProto == InitProto /\ [][NextProto]_vars


(***************************************************************************)
(* Claims about the header codec                                           *)
(***************************************************************************)
\* C1: decoding encodePayloadHeader(S, P) followed by any payload, for a
\* non-empty path P of non-negative indexes, returns no error, schema id S,
\* path P and a consumed-byte count equal to the length of the header.
C1_RoundTrip ==
    (cstep = "decoded" /\ msgIndexes # <<>> /\ \A i \in 1..Len(msgIndexes) : msgIndexes[i] >= 0)
        => /\ ~decoded.fault
           /\ decoded.err = NoErr
           /\ decoded.schemaId = schemaId
           /\ decoded.msgIndexes = msgIndexes
           /\ decoded.totalBytesRead = Len(wire)

\* the end-to-end scenario of the specification: id 42, path [0,2,1], a payload
C1_Witness ==
    /\ cstep = "decoded"
    /\ schemaId = 42
    /\ msgIndexes = <<0, 2, 1>>
    /\ payload = <<8, 1>>
    /\ decoded.msgIndexes = <<0, 2, 1>>
    /\ decoded.totalBytesRead = 9

\* C2: a header whose index count is encoded as zero decodes to the path [0],
\* not to an empty path.
C2_ZeroCountIsPathZero ==
    (cstep = "decoded" /\ msgIndexes = <<>>)
        => (~decoded.fault /\ decoded.err = NoErr /\ decoded.msgIndexes = <<0>>)

\* the number of well-formed varints at the start of buf, counted up to max
RECURSIVE WellFormedVarints(_, _)
WellFormedVarints(buf, max) ==
    IF max = 0 \/ Varint(buf).n <= 0 THEN 0
    ELSE 1 + WellFormedVarints(SliceFrom(buf, Varint(buf).n), max - 1)

\* the index-count varint of a header, read behind the five fixed bytes
CountVarint(bytes) == Varint(SliceFrom(bytes, 5))

\* C25: decodeHeader always returns; its error is
\* ErrInvalidProtobufWireProtocolVersion exactly when the first byte is
\* non-zero, ErrUnableToDecodeMessageIndexArray when the index-count varint
\* cannot be decoded, ErrUnableToDecodeValueInMessageIndexArray when fewer
\* well-formed index varints follow than the count announces, and no error
\* in all other cases.
C25_DecodeHeaderErrors ==
    cstep = "rawdecoded" =>
        LET versionBad == wire # <<>> /\ wire[1] # 0
            countBad   == ~versionBad /\ CountVarint(wire).n <= 0
            valuesBad  == /\ ~versionBad
                          /\ ~countBad
                          /\ WellFormedVarints(SliceFrom(wire, 5 + CountVarint(wire).n),
                                               CountVarint(wire).x)
                                 < CountVarint(wire).x
        IN  /\ ~decoded.fault
            /\ (decoded.err = ErrInvalidProtobufWireProtocolVersion) <=> versionBad
            /\ countBad => decoded.err = ErrUnableToDecodeMessageIndexArray
            /\ valuesBad => decoded.err = ErrUnableToDecodeValueInMessageIndexArray
            /\ (~versionBad /\ ~countBad /\ ~valuesBad) => decoded.err = NoErr

(***************************************************************************)
(* Claims about the descriptor resolver                                    *)
(***************************************************************************)
\* the message reached by taking element k of the path as the position in the
\* ordered message list at depth k; None as soon as an index is out of range
RECURSIVE Walk(_, _, _)
Walk(t, node, idx) ==
    IF idx = <<>> THEN node
    ELSE IF ~InRange(t[node], Head(idx)) THEN None
    ELSE Walk(t, t[node][Head(idx) + 1], Tail(idx))

\* number of enclosing messages of a message
RECURSIVE Depth(_, _)
Depth(t, m) == IF Parent(t, m) = FileNode THEN 0 ELSE 1 + Depth(t, Parent(t, m))

\* C3: a path with an index out of range at any depth (negative included)
\* makes resolveDescriptorByIndexes return an error: no fault, no descriptor.
C3_OutOfRangeIsError ==
    (dstep = "resolved" /\ Walk(tree, FileNode, rpath) = None)
        => (~resolved.fault /\ resolved.err # NoErr /\ resolved.desc = None)

\* C4: a non-empty path whose every index is in range resolves, without error,
\* to exactly the message reached by the positional walk from the file.
C4_ResolvesPositionally ==
    (dstep = "resolved" /\ rpath # <<>> /\ Walk(tree, FileNode, rpath) # None)
        => /\ ~resolved.fault
           /\ resolved.err = NoErr
           /\ resolved.desc = Walk(tree, FileNode, rpath)
           /\ (tree = FixtureTree /\ rpath = <<0, 2, 1>> => resolved.desc = "MessageG")
           /\ (tree = FixtureTree /\ rpath = <<1, 0>> => resolved.desc = "MessageI")

C4_Witness ==
    /\ dstep = "resolved"
    /\ tree = FixtureTree
    /\ rpath = <<0, 2, 1>>
    /\ resolved = ResolveOk("MessageG")

\* C5: computeMessageIndexes(M) is the top-down positional path to M, of length
\* nesting depth + 1, and resolving it against the same tree returns M.
C5_ComputeThenResolve ==
    /\ dstep \in {"computed", "roundtrip"}
          => /\ Len(computed.idx) = Depth(tree, computed.msg) + 1
             /\ Walk(tree, FileNode, computed.idx) = computed.msg
    /\ dstep = "roundtrip" => resolved = ResolveOk(computed.msg)

C5_Witness ==
    /\ dstep = "roundtrip"
    /\ tree = FixtureTree
    /\ computed = [msg |-> "MessageG", idx |-> <<0, 2, 1>>]
    /\ resolved.desc = "MessageG"

(***************************************************************************)
(* Claims about the serializer and deserializer facade                     *)
(***************************************************************************)
\* the successful Serialize call just made, and the cache key it used
SerializedOk == last.op = "Serialize" /\ last.res.out # NilSlice
LastKey == <<last.sid, last.in.type>>

\* C6: for a fixed (schema id, message type) the header bytes Serialize
\* prepends are the same on a cache hit as those computed on the cache miss,
\* on every call; the cached header bytes never change.
C6_HitEqualsMiss ==
    /\ SerializedOk =>
          /\ LastKey \in DOMAIN issued
          /\ Bytes(heap, last.res.out) = issued[LastKey] \o last.in.body
          /\ Bytes(heap, last.header) = issued[LastKey]
    /\ \A id \in DOMAIN headerCache.m : \A name \in DOMAIN headerCache.m[id] :
          /\ <<id, name>> \in DOMAIN issued
          /\ Bytes(heap, headerCache.m[id][name]) = issued[<<id, name>>]

\* a cache hit after the miss of an earlier call had appended a message body
\* behind the cached header
C6_Witness ==
    /\ SerializedOk
    /\ last.hit
    /\ ~last.in.vt
    /\ Len(outs) = 2
    /\ outs[1].arr = outs[2].arr

\* C7: Deserialize (with its resolver configured) of input whose header cannot
\* be decoded returns that header-decoding error and calls neither the
\* protobuf resolver nor unmarshal.
C7_HeaderErrorReturned ==
    (last.op = "Deserialize" /\ resolverSet /\ ~last.in.nil
        /\ ~decodeHeader(last.in.b).fault /\ decodeHeader(last.in.b).err # NoErr)
        => /\ ~last.res.fault
           /\ last.res.err = decodeHeader(last.in.b).err
           /\ last.resolverCalls = 0
           /\ last.unmarshalCalls = 0

\* C8: Serialize(nil) returns (nil, no error) without calling the schema
\* resolver; Deserialize(nil) returns ErrNothingToDeserialize without calling
\* the protobuf resolver.
C8_NilHandling ==
    /\ (last.op = "Serialize" /\ last.in = NilThing)
          => /\ last.res = SerResult(FALSE, NoErr, NilSlice)
             /\ last.resolveSchemaCalls = 0
             /\ last.protoSchemaCalls = 0
    /\ (last.op = "Deserialize" /\ last.in.nil)
          => /\ last.res = DesResult(FALSE, ErrNothingToDeserialize, NilMsg)
             /\ last.resolverCalls = 0

\* both halves one after the other: nothing was serialized by the first call,
\* the second was Deserialize(nil)
C8_Witness ==
    /\ ncalls = 2
    /\ last.op = "Deserialize"
    /\ last.in.nil
    /\ last.res.err = ErrNothingToDeserialize
    /\ headerCache = NilMap
    /\ resolverSet

(***************************************************************************)
(* Claims about the registry client, checked under SpecClient              *)
(***************************************************************************)
Latest(subject) == registry[subject][Len(registry[subject])]

\* a goroutine has returned from GetLatestSchema(subject) without error, its
\* previous call was a CreateSchema(subject, ...) that succeeded, and the id
\* that call returned is still the latest the registry holds for the subject
LatestAfterCreate(t) ==
    /\ th[t].pc = "done"
    /\ th[t].op = "GetLatestSchema"
    /\ th[t].err = NoErr
    /\ th[t].prev.op = "CreateSchema"
    /\ th[t].prev.subject = th[t].subject
    /\ registry[th[t].subject] # <<>>
    /\ Latest(th[t].subject) = th[t].prev.id

\* C9: after CreateSchema(subject, ...) succeeds, GetLatestSchema(subject) on
\* the same client returns a schema whose version is the one the registry
\* holds the created id under in that subject, also when a "latest" result
\* for the subject was cached before the create
C9_LatestReflectsCreate ==
    \A t \in Threads :
        LatestAfterCreate(t) => th[t].res.version = Len(registry[th[t].subject])

CacheEntries ==
    {idSchemaCache[k] : k \in DOMAIN idSchemaCache}
        \cup {subjectSchemaCache[k] : k \in DOMAIN subjectSchemaCache}

\* the key a read call looks up was in its cache when the latest reset ran
ReadsDroppedKey(r) ==
    IF r.op = "GetSchema" THEN r.id \in lastReset.ids
    ELSE cacheKey(r.subject, r.version) \in lastReset.keys

\* C10: after ResetCache no entry cached before the reset is left in either
\* cache, what the caches hold was fetched after the reset, and a read that
\* follows the reset and returns a schema has fetched it with one request
\* after the reset instead of taking it from a cache
C10_ResetForcesFreshFetch ==
    /\ \A e \in CacheEntries :
        /\ e.at = resets
        /\ lastReset.clean => e.s.fetchedAt = resets
    /\ \A t \in Callers :
        (/\ th[t].pc = "done"
         /\ th[t].op \in ReadOps
         /\ th[t].prev.op = "ResetCache"
         /\ th[t].err = NoErr)
        => /\ ~th[t].hit
           /\ th[t].reqs = 1
           /\ th[t].res.fetchedAt = resets

\* a read of a key the reset dropped has fetched again and returned
C10_Witness ==
    \E t \in Callers :
        /\ th[t].pc = "done"
        /\ th[t].op \in ReadOps
        /\ th[t].prev.op = "ResetCache"
        /\ th[t].err = NoErr
        /\ ReadsDroppedKey(th[t])
        /\ cachingEnabled
        /\ th[t].reqs = 1
        /\ th[t].res.fetchedAt = resets

\* what the cache a read call looks into holds under the key of the call
CachedFor(r) ==
    IF r.op = "GetSchema" THEN CacheGet(idSchemaCache, r.id)
    ELSE CacheGet(subjectSchemaCache, cacheKey(r.subject, r.version))

\* C11: with caching enabled a read that misses issues exactly one request
\* and, when it succeeds, has stored what it returns under its key before it
\* returns; a read that hits issues none; and a read repeated with the same
\* arguments after a successful one returns the same Schema from the cache
\* without a request
C11_MissFetchesOnceThenHits ==
    \A t \in Callers :
        (th[t].pc = "done" /\ th[t].op \in ReadOps /\ cachingEnabled) =>
            /\ th[t].hit => th[t].reqs = 0
            /\ ~th[t].hit => th[t].reqs = 1
            /\ (~th[t].hit /\ th[t].err = NoErr) => CachedFor(th[t]) = th[t].res
            /\ th[t].prev.op = "same" =>
                /\ th[t].hit
                /\ th[t].err = NoErr
                /\ th[t].reqs = 0
                /\ th[t].res = th[t].prev.res

\* a read was repeated with the same arguments and answered from the cache
C11_Witness ==
    \E t \in Callers :
        /\ th[t].pc = "done"
        /\ th[t].op \in ReadOps
        /\ cachingEnabled
        /\ th[t].prev.op = "same"
        /\ ~th[t].prev.res.nil
        /\ th[t].res = th[t].prev.res
        /\ th[t].reqs = 0

\* goroutine t looks into the subject cache for GetLatestSchema(subject) in
\* this step
ReadsLatest(t, subject) ==
    /\ th[t].op = "GetLatestSchema"
    /\ th[t].subject = subject
    /\ th[t].pc = "gv_read"
    /\ th'[t].pc # "gv_read"

\* C12: the result of GetLatestSchema(subject) is cached under the key of
\* "latest": once it is there no step but the reset of the caches changes or
\* drops it, whatever is registered meanwhile, and a GetLatestSchema(subject)
\* that looks into the cache returns that very Schema
C12_LatestStaysCached ==
    [][\A subject \in Subjects :
         LET k == cacheKey(subject, "latest")
         IN k \in DOMAIN subjectSchemaCache =>
              /\ resets' = resets =>
                    /\ k \in DOMAIN subjectSchemaCache'
                    /\ subjectSchemaCache'[k] = subjectSchemaCache[k]
              /\ \A t \in Callers :
                    ReadsLatest(t, subject) =>
                        /\ th'[t].pc = "done"
                        /\ th'[t].err = NoErr
                        /\ th'[t].res = subjectSchemaCache[k].s]_vars

\* GetLatestSchema has returned the cached Schema although the registry by
\* then holds a newer version of the subject
C12_Witness ==
    \E t \in Callers :
        /\ th[t].pc = "done"
        /\ th[t].op = "GetLatestSchema"
        /\ th[t].hit
        /\ th[t].err = NoErr
        /\ th[t].res = CacheGet(subjectSchemaCache, cacheKey(th[t].subject, "latest"))
        /\ th[t].res.version < Len(registry[th[t].subject])
        /\ th[t].res.id # Latest(th[t].subject)

(***************************************************************************)
(* Claims about concurrent calls, checked under SpecClientConc             *)
(***************************************************************************)
\* the goroutines whose request is out: between sem.Acquire and the answer
InFlight == {t \in Threads : th[t].pc = "http_do"}

\* C13: every request holds one semaphore slot from before it is dispatched
\* until it is answered, with a response or an error, so the requests in
\* flight never exceed the weight, and when every call has returned all
\* slots are free
C13_RequestsBoundedBySemaphore ==
    /\ sem = Cardinality(InFlight)
    /\ Cardinality(InFlight) <= SemaphoreWeight
    /\ (\A t \in Threads : th[t].pc = "done") => sem = 0

\* one request is out and holds the last slot while another goroutine waits
\* for a slot
C13_Witness ==
    \E t, u \in Threads :
        /\ th[t].pc = "http_do"
        /\ th[u].pc = "http_acquire"
        /\ sem = SemaphoreWeight

\* C14 as stated: no goroutine ever holds the id cache lock and the subject
\* cache lock at the same time, in any operation including ResetCache
C14_NeverBothLocks ==
    \A t \in Threads : ~(idSchemaCacheLock = t /\ subjectSchemaCacheLock = t)

\* C14 amended: a goroutine holds a cache lock across steps only inside
\* ResetCache, which takes the id lock, then the subject lock, holds both
\* while it replaces the maps and releases the id lock first; every other
\* operation takes one lock for one map access and has released it before
\* it takes the other
C14_OnlyResetCacheHoldsBoth ==
    \A t \in Threads :
        /\ idSchemaCacheLock = t =>
              /\ th[t].op = "ResetCache"
              /\ th[t].pc \in {"rc_lock_s", "rc_replace", "rc_unlock_i"}
        /\ subjectSchemaCacheLock = t =>
              /\ th[t].op = "ResetCache"
              /\ th[t].pc \in {"rc_replace", "rc_unlock_i", "rc_unlock_s"}
        /\ th[t].pc \in {"rc_replace", "rc_unlock_i"} =>
              (idSchemaCacheLock = t /\ subjectSchemaCacheLock = t)
        /\ th[t].pc \notin {"rc_lock_s", "rc_replace", "rc_unlock_i", "rc_unlock_s"} =>
              (idSchemaCacheLock # t /\ subjectSchemaCacheLock # t)

\* ResetCache holds both locks while another goroutine waits to read a cache
C14_Witness ==
    \E t, u \in Threads :
        /\ th[t].op = "ResetCache"
        /\ idSchemaCacheLock = t
        /\ subjectSchemaCacheLock = t
        /\ th[u].pc \in {"gs_read", "gv_read"}

(***************************************************************************)
(* Claims about the HeaderCache under concurrent use                       *)
(***************************************************************************)
\* C15: every read and write of the HeaderCache backing map made by Get and
\* Put, the lazy initialisation included, happens while the mutex is held.
C15_MapAccessUnderMutex == hcBare = {}

\* C16: once Put(schemaId, messageType, header) has returned, every Get for
\* that schema id and message type called afterwards returns (header, true),
\* whatever Get and Put calls run concurrently.
C16_PutIsNeverLost ==
    \A t \in Threads :
        (hcTh[t].pc = "done" /\ hcTh[t].op = "Get" /\ hcTh[t].later)
            => hcTh[t].res = [header |-> HcHeader(hcTh[t].id, hcTh[t].name),
                              ok |-> TRUE, fault |-> FALSE]

(***************************************************************************)
(* Claims about the Schema value                                           *)
(***************************************************************************)
\* C17: a Schema is never modified after it has been created and handed
\* out: no accessor (ID, Schema, Version, References, Codec, JsonSchema)
\* assigns a field of it.
C17_AccessorsNeverWrite == schemaWrites = {}

(***************************************************************************)
(* Claims about the client with caching disabled                           *)
(***************************************************************************)
\* a step of goroutine t inside a call that runs with caching disabled
StepsWhileDisabled(t) == th[t].off /\ th[t].pc # "done" /\ th'[t] # th[t]

\* the step leaves both caches alone and reads neither, and a GetSchema,
\* GetSchemaByVersion or GetLatestSchema that returns with it has issued a
\* request and was not answered from a cache
BypassesCaches(t) ==
    /\ UNCHANGED <<idSchemaCache, subjectSchemaCache>>
    /\ th'[t].pc \notin {"gs_read", "gv_read"}
    /\ (th'[t].pc = "done" /\ th'[t].op \in ReadOps)
          => (th'[t].reqs = 1 /\ ~th'[t].hit)

\* C18 (as stated): while caching is disabled every GetSchema,
\* GetSchemaByVersion and GetLatestSchema issues a registry request, and no
\* operation reads from or writes to either cache: both caches stay exactly
\* as they were when caching was disabled.
C18_NoOperationTouchesCachesWhileDisabled ==
    [][\A t \in Threads : StepsWhileDisabled(t) => BypassesCaches(t)]_vars

\* C18 (amended): while caching is disabled every GetSchema,
\* GetSchemaByVersion and GetLatestSchema issues a registry request, and no
\* operation other than ResetCache reads from or writes to either cache.
C18_OnlyResetCacheTouchesCachesWhileDisabled ==
    [][\A t \in Threads :
         (StepsWhileDisabled(t) /\ th[t].op # "ResetCache") => BypassesCaches(t)]_vars

\* with caching disabled, GetSchema has fetched from the registry a schema
\* that the id cache holds
C18_Witness ==
    \E t \in Threads :
        /\ th[t].pc = "done" /\ th[t].op = "GetSchema" /\ th[t].off
        /\ ~cachingEnabled
        /\ th[t].err = NoErr /\ th[t].reqs = 1 /\ ~th[t].hit
        /\ th[t].id \in DOMAIN idSchemaCache

(***************************************************************************)
(* Claims about dependencies that were not configured                      *)
(***************************************************************************)
\* C19: a dependency that is nil is reported as an error, not as a fault:
\* Serialize of a value by a serializer without schema resolver, and
\* Deserialize by a deserializer without protobuf resolver, each return an
\* error and no output.
C19_NilDependencyIsAnError ==
    ~resolverSet =>
        /\ (last.op = "Serialize" /\ last.in # NilThing)
              => /\ ~last.res.fault
                 /\ last.res.err # NoErr
                 /\ last.res.out = NilSlice
        /\ (last.op = "Deserialize" /\ (last.in.nil \/ ~decodeHeader(last.in.b).fault))
              => /\ ~last.res.fault
                 /\ last.res.err # NoErr
                 /\ last.res.pb = NilMsg

(***************************************************************************)
(* Claims about the mock registry                                          *)
(***************************************************************************)
\* the highest of a non-empty set of versions
HighestVersion(S) == CHOOSE x \in S : \A y \in S : y <= x

\* C20: a successful CreateSchema(subject, schema, type) on the mock registry
\* returns a schema whose id is the previous idCounter plus one and whose
\* version is 1 if the subject had no versions, else its highest version
\* plus one; afterwards that schema is the one stored under its id and under
\* (subject, version).
C20_MockCreateSchemaNumbers ==
    (mockLast.op = "CreateSchema" /\ mockLast.ok) =>
        LET res == mockLast.res
            subject == mockLast.subject
        IN  /\ res.id = mockLast.idBefore + 1
            /\ res.version = IF mockLast.versionsBefore = {} THEN 1
                              ELSE HighestVersion(mockLast.versionsBefore) + 1
            /\ res.id \in DOMAIN schemaIDs
            /\ schemaIDs[res.id] = res
            /\ subject \in DOMAIN schemaVersions
            /\ res.version \in DOMAIN schemaVersions[subject]
            /\ schemaVersions[subject][res.version] = res

\* CreateSchema has registered version 4 of a subject that held version 3
\* only, under the id that follows a counter raised by SetSchema
C20_Witness ==
    /\ mockLast.op = "CreateSchema" /\ mockLast.ok
    /\ mockLast.versionsBefore = {3}
    /\ mockLast.res.version = 4
    /\ mockLast.idBefore = 5
    /\ mockLast.res.id = 6

\* C21: after any sequence of calls idCounter is at least every id stored in
\* schemaIDs, so a successful CreateSchema returns an id under which no
\* schema was stored before the call.
C21_CounterCoversStoredIds ==
    [][/\ \A id \in DOMAIN schemaIDs' : id <= idCounter'
       /\ (mockLast'.op = "CreateSchema" /\ mockLast'.ok)
            => mockLast'.res.id \notin DOMAIN schemaIDs]_vars

\* CreateSchema has returned id 6 after SetSchema had stored a schema under
\* id 5
C21_Witness ==
    /\ mockLast.op = "CreateSchema" /\ mockLast.ok
    /\ DOMAIN schemaIDs = {5, 6}
    /\ idCounter = 6

\* the subject holds a schema whose text equals text once the line breaks of
\* both are replaced
RegisteredUpToLineBreaks(subject, text) ==
    /\ subject \in DOMAIN schemaVersions
    /\ \E v \in DOMAIN schemaVersions[subject] :
          ReplaceAllString(schemaVersions[subject][v].schema) = ReplaceAllString(text)

\* the subject holds a schema whose stored text equals text as a call with
\* this schema type normalises it
RegisteredAsCompared(subject, schemaType, text) ==
    /\ subject \in DOMAIN schemaVersions
    /\ \E v \in DOMAIN schemaVersions[subject] :
          schemaVersions[subject][v].schema = NormalisedFor(schemaType, text)

\* the call that ends with this step was refused as a duplicate and has
\* registered nothing
RefusedAsDuplicate ==
    /\ mockLast'.res = NoMockSchema
    /\ mockLast'.err = errSchemaAlreadyRegistered
    /\ schemaVersions' = schemaVersions
    /\ schemaIDs' = schemaIDs

\* C22 (as stated): CreateSchema / SetSchema with a schema text equal, after
\* line-break normalisation, to a schema already registered under the same
\* subject returns a nil schema and errSchemaAlreadyRegistered and registers
\* no new version and no new id entry.
C22_DuplicateTextRefused ==
    [][(/\ mockLast'.op \in {"CreateSchema", "SetSchema"}
        /\ RegisteredUpToLineBreaks(mockLast'.subject, mockLast'.text))
          => RefusedAsDuplicate]_vars

\* C22 (amended): the same for a call with schema type Avro, Json or Protobuf
\* whose text, with its line breaks replaced when the type is Avro or Json
\* and as given when it is Protobuf, equals the stored text of a schema of
\* the subject.
C22_DuplicateTextRefusedForValidType ==
    [][(/\ mockLast'.op \in {"CreateSchema", "SetSchema"}
        /\ mockLast'.schemaType \in {Avro, Json, Protobuf}
        /\ RegisteredAsCompared(mockLast'.subject, mockLast'.schemaType, mockLast'.text))
          => RefusedAsDuplicate]_vars

\* CreateSchema of a text ending in CR LF was refused because the subject
\* holds the same text ending in a space
C22_Witness ==
    /\ mockLast.op = "CreateSchema"
    /\ mockLast.err = errSchemaAlreadyRegistered
    /\ mockLast.text = <<"string", CR, LF>>
    /\ mockLast.subject \in DOMAIN schemaVersions
    /\ \E v \in DOMAIN schemaVersions[mockLast.subject] :
          schemaVersions[mockLast.subject][v].schema = <<"string", SP>>

C24_MockDeleteRemovesOneVersion ==
    [][mockLast'.op = "DeleteSubjectByVersion" =>
         LET subject == mockLast'.subject
             v == mockLast'.version
         IN  IF subject \notin DOMAIN schemaVersions
             THEN /\ mockLast'.err = errSubjectNotFound
                  /\ UNCHANGED <<schemaVersions, schemaIDs, idCounter>>
             ELSE IF v \notin DOMAIN schemaVersions[subject]
             THEN /\ mockLast'.err = errSchemaNotFound
                  /\ UNCHANGED <<schemaVersions, schemaIDs, idCounter>>
             ELSE /\ mockLast'.err = NoErr
                  /\ DOMAIN schemaVersions' = DOMAIN schemaVersions
                  /\ \A x \in DOMAIN schemaVersions \ {subject} :
                        schemaVersions'[x] = schemaVersions[x]
                  /\ DOMAIN schemaVersions'[subject] = DOMAIN schemaVersions[subject] \ {v}
                  /\ \A w \in DOMAIN schemaVersions[subject] \ {v} :
                        schemaVersions'[subject][w] = schemaVersions[subject][w]]_vars

\* version 3 of a subject that held versions 3 and 4 has been deleted
C24_Witness ==
    /\ mockLast.op = "DeleteSubjectByVersion"
    /\ mockLast.err = NoErr
    /\ mockLast.version = 3
    /\ mockLast.versionsBefore = {3, 4}
    /\ DOMAIN schemaVersions[mockLast.subject] = {4}

(***************************************************************************)
(* Claims about CreateSchema and about failed requests                     *)
(***************************************************************************)
\* the id the registry gives a schema text
TextId(text) == CHOOSE i \in DOMAIN SchemaTexts : SchemaTexts[i] = text

\* the step with which a call of op that was under way returns
Returns(t, op) == th[t].op = op /\ th[t].pc # "done" /\ th'[t].pc = "done"

\* the POST of CreateSchema is the first request of the call; a POST that
\* fails ends the call with that error and no further request; a POST that
\* succeeds sends the call on to GetSchema with the id the registry gave
PostThenGetSchema(t) ==
    /\ (th[t].op = "CreateSchema" /\ th[t].pc = "http_do" /\ th[t].site = "cs")
          => th[t].reqs = 0
    /\ (th[t].op = "CreateSchema" /\ th[t].pc = "http_do" /\ th[t].site = "gs")
          => th[t].reqs = 1 /\ th[t].id = TextId(th[t].text)
    /\ (th[t].pc = "cs_resp" /\ ~th[t].resp.ok /\ th'[t] # th[t])
          => /\ th'[t].pc = "done"
             /\ th'[t].res = NilSchema
             /\ th'[t].err # NoErr
             /\ th'[t].reqs = 1
    /\ (th[t].pc = "cs_resp" /\ th[t].resp.ok /\ th'[t] # th[t])
          => /\ th[t].resp.id = TextId(th[t].text)
             /\ th'[t].pc \in {"gs_read", "http_acquire"}
             /\ th'[t].id = th[t].resp.id

\* the Schema a returning CreateSchema hands back is what the registry holds
\* under the id of the text
RegistryContent(t) ==
    /\ ~th'[t].res.nil
    /\ th'[t].res.id = TextId(th[t].text)
    /\ th'[t].res.schema = th[t].text
    /\ th'[t].res.version \in VersionsOf(registry', th'[t].res.id)

\* both caches hold the returned Schema, under its id and under the subject
\* and its version
CachedAsReturned(t) ==
    /\ CacheGet(idSchemaCache', th'[t].res.id) = th'[t].res
    /\ CacheGet(subjectSchemaCache',
                cacheKey(th[t].subject, Itoa(th'[t].res.version))) = th'[t].res

C27_InvalidTypeIsRefused ==
    [][/\ \A t \in Callers :
            (/\ th[t].pc = "done"
             /\ callsLeft' = callsLeft - 1
             /\ th'[t].op = "CreateSchema"
             /\ th'[t].schemaType \notin {Avro, Json, Protobuf})
            => /\ th'[t].pc = "done"
               /\ th'[t].res = NilSchema
               /\ th'[t].err = ErrInvalidSchemaType
               /\ th'[t].reqs = 0
               /\ UNCHANGED <<idSchemaCache, subjectSchemaCache, sem, registry>>
       /\ (/\ mockLeft' = mockLeft - 1
           /\ mockLast'.op = "CreateSchema"
           /\ mockLast'.schemaType \notin {Avro, Json, Protobuf})
            => /\ ~mockLast'.ok
               /\ mockLast'.err = errInvalidSchemaType
               /\ mockLast'.res = NoMockSchema
               /\ UNCHANGED <<schemaVersions, schemaIDs>>]_vars

\* the client has refused a CreateSchema of type XML while its id cache
\* held a schema
C27_Witness ==
    \E t \in Callers :
        /\ th[t].pc = "done" /\ th[t].op = "CreateSchema"
        /\ th[t].schemaType = "XML"
        /\ th[t].err = ErrInvalidSchemaType
        /\ th[t].reqs = 0
        /\ idSchemaCache # EmptyMap

\* the mock has refused a CreateSchema of type XML while it held a subject
MockRefusedInvalidType ==
    /\ mockLast.op = "CreateSchema"
    /\ mockLast.schemaType = "XML"
    /\ mockLast.err = errInvalidSchemaType
    /\ schemaVersions # EmptyMap

\* the calls that ask the registry for a schema or register one
SchemaOps == {"GetSchema", "GetSchemaByVersion", "GetLatestSchema",
              "LookupSchema", "CreateSchema"}

\* a goroutine holds the answer of a request that failed
HoldsFailure(t) ==
    /\ th[t].op \in SchemaOps
    /\ th[t].pc \in {"gs_resp", "gv_resp", "ls_resp", "cs_resp"}
    /\ ~th[t].resp.ok

\* C28: a request of GetSchema, GetSchemaByVersion, GetLatestSchema,
\* LookupSchema or CreateSchema that fails (the request itself, its status or
\* the parsing of its body) makes the call return a nil schema and the error
\* without another request: the failed request is the last of the call and
\* was sent once, and both caches are as they were when the call began.
C28_FailedRequestReturnsError ==
    [][\A t \in Callers :
          /\ (HoldsFailure(t) /\ th'[t] # th[t])
                => /\ th'[t].err = ErrHTTP
                   /\ th'[t].reqs = th[t].reqs
                   /\ \/ th'[t].pc = "done" /\ th'[t].res = NilSchema
                      \/ /\ th[t].op = "CreateSchema" /\ th[t].pc = "gs_resp"
                         /\ th'[t].pc = "cs_got" /\ th'[t].schema = NilSchema
          /\ (th[t].pc = "cs_got" /\ th[t].err # NoErr /\ th'[t] # th[t])
                => /\ th'[t].pc = "done"
                   /\ th'[t].res = NilSchema
                   /\ th'[t].err = th[t].err
                   /\ th'[t].reqs = th[t].reqs
          /\ (\E op \in SchemaOps : Returns(t, op) /\ th'[t].err = ErrHTTP)
                => /\ th'[t].res = NilSchema
                   /\ idSchemaCache' = th'[t].before.ids
                   /\ subjectSchemaCache' = th'[t].before.keys
                   /\ th'[t].reqs = IF th[t].pc = "cs_got" THEN 2 ELSE 1
                   /\ ~th'[t].hit]_vars

\* CreateSchema has returned the error of its GET, the second request of the
\* call, and the id cache holds what it held before the call
C28_Witness ==
    \E t \in Callers :
        /\ th[t].pc = "done" /\ th[t].op = "CreateSchema"
        /\ th[t].err = ErrHTTP /\ th[t].res = NilSchema
        /\ th[t].reqs = 2
        /\ idSchemaCache # EmptyMap
        /\ idSchemaCache = th[t].before.ids
        /\ subjectSchemaCache = th[t].before.keys

(***************************************************************************)
(* Claims about the initialization hook and the header of a pair           *)
(***************************************************************************)
\* C29: with an initialization hook configured, a Serialize call that calls
\* the marshal function has called the hook exactly once, on the message it
\* then marshals, whether the header came from the cache or not. The hook
\* comes after the schema resolution (a call whose resolution failed, or that
\* returned before it, has not called it) and before the header generation
\* (a call whose header generation failed has called it).
C29_HookOnceBeforeMarshal ==
    (hookSet /\ last.op = "Serialize") =>
        /\ last.marshalCalls = 1
              => /\ last.hookCalls = 1
                 /\ last.hookMsg = last.marshalMsg
                 /\ last.marshalMsg = last.in
        /\ last.hookCalls \in {0, 1}
        /\ last.hookCalls = 1 <=> (last.resolveSchemaCalls = 1 /\ last.sid # NoSchema)

\* a Serialize call with a hook has taken its header from the cache, called
\* the hook and marshalled
C29_Witness ==
    /\ hookSet
    /\ last.op = "Serialize"
    /\ last.hit
    /\ last.hookCalls = 1
    /\ last.marshalCalls = 1
    /\ last.res.out # NilSlice

\* C30: the header of a (schema id, message type) pair is computed once. A
\* Serialize call that succeeds leaves the header of its pair computed, and a
\* Serialize call for a pair whose header was computed by an earlier call
\* takes the header from the cache: it does not call ResolveProtoSchema, does
\* not go through the descriptors again (generateHeader returns at its first
\* line), stores nothing, and prepends the cached slice, whose bytes are
\* those computed by the earlier call.
C30_HeaderComputedOncePerPair ==
    [][(ncalls' = ncalls + 1 /\ last'.op = "Serialize")
          => /\ last'.res.out # NilSlice
                   => <<last'.sid, last'.in.type>> \in DOMAIN issued'
             /\ (last'.sid # NoSchema /\ <<last'.sid, last'.in.type>> \in DOMAIN issued)
                   => /\ last'.hit
                      /\ last'.protoSchemaCalls = 0
                      /\ last'.header = headerCache.m[last'.sid][last'.in.type]
                      /\ Bytes(heap', last'.header) = issued[<<last'.sid, last'.in.type>>]
                      /\ issued' = issued
                      /\ headerCache' = headerCache]_vars

\* a second successful Serialize call for a pair has taken the header from
\* the cache without calling ResolveProtoSchema
C30_Witness ==
    /\ last.op = "Serialize"
    /\ last.res.out # NilSlice
    /\ last.hit
    /\ last.protoSchemaCalls = 0
    /\ last.in.vt
    /\ ncalls = 2
    /\ Len(outs) = 2

(***************************************************************************)
(* Claims about the mock registry: lookups by id and failed registrations  *)
(***************************************************************************)
\* C31: every (subject, version) pair GetSubjectVersionsById(id) returns on
\* the mock names a stored version whose schema has the id asked for; when no
\* stored version has the id the call returns errSchemaNotFound and no pairs.
C31_PairsHoldTheId ==
    mockLast.op = "GetSubjectVersionsById" =>
        /\ \A p \in mockLast.pairs :
              /\ p[1] \in DOMAIN schemaVersions
              /\ p[2] \in DOMAIN schemaVersions[p[1]]
              /\ schemaVersions[p[1]][p[2]].id = mockLast.id
        /\ (\A s \in DOMAIN schemaVersions : \A v \in DOMAIN schemaVersions[s] :
                schemaVersions[s][v].id # mockLast.id)
              => (mockLast.err = errSchemaNotFound /\ mockLast.pairs = {})

(***************************************************************************)
(* Claims about the protobuf example client                                *)
(***************************************************************************)
\* C32: a GetProtoSchema(id) made when an earlier GetProtoSchema(id) has
\* succeeded returns the descriptor of that earlier call with no error,
\* fetches no schema and parses nothing; a GetProtoSchema call that fails
\* leaves the protoCache as it was, and a call for an id (other than 0) with
\* no cached descriptor asks the registry again.
C32_ParsedOncePerId ==
    protoLast.called =>
        LET id == protoLast.schemaId
            before == protoLast.cacheBefore
        IN  /\ id \in DOMAIN protoLast.earlier =>
                 /\ protoLast.fd = protoLast.earlier[id]
                 /\ protoLast.err = NoErr /\ ~protoLast.fault
                 /\ protoLast.fetched = 0 /\ protoLast.parsed = 0
            /\ (protoLast.err # NoErr \/ protoLast.fault) => protoCache = before
            /\ (id \notin DOMAIN protoLast.earlier /\ id # 0) => protoLast.fetched > 0

\* a call that returns the descriptor of an earlier successful call after the
\* registry has lost the schema, as the last step of a run
C32_Witness ==
    /\ protoLast.called
    /\ protoLast.schemaId \in DOMAIN protoLast.earlier
    /\ protoLast.fd = protoLast.earlier[protoLast.schemaId]
    /\ protoReg[protoLast.schemaId] = "absent"
    /\ protoLeft = 0

(***************************************************************************)
(* Claims about the storage of serialized bytes                            *)
(***************************************************************************)
\* C33: the bytes a Serialize call has returned are not changed by any later
\* call: every slice returned so far shows the same bytes after a step as
\* before it.
C33_ReturnedBytesStay ==
    [][\A i \in 1..Len(outs) : Bytes(heap', outs[i]) = Bytes(heap, outs[i])]_vars

(***************************************************************************)
(* Claims about input that is not a well-formed frame                      *)
(***************************************************************************)
\* C34: decodeHeader returns, with a result or with an error, for every
\* non-nil byte sequence: it never faults.
C34_DecodeHeaderIsTotal == cstep = "rawdecoded" => ~decoded.fault

(***************************************************************************)
(* Claims about calls that run while the caches are reset                  *)
(***************************************************************************)
\* no ResetCache call is under way
NoResetRunning == \A u \in Threads : th[u].op = "ResetCache" => th[u].pc = "done"

\* goroutine t, inside a read, writes a cache in this step
ReadStores(t) ==
    /\ th[t].op \in ReadOps
    /\ th'[t] # th[t]
    /\ idSchemaCache' # idSchemaCache \/ subjectSchemaCache' # subjectSchemaCache

\* C35: a read (GetSchema, GetSchemaByVersion, GetLatestSchema) does not
\* store into a cache, once every ResetCache has returned, a result whose
\* registry fetch was issued before the latest reset.
C35_NoStoreAfterReset ==
    [][\A t \in Threads :
          (ReadStores(t) /\ NoResetRunning) => th[t].fetchedAt = resets]_vars

(***************************************************************************)
(* Claims about the version CreateSchema reports                           *)
(***************************************************************************)
\* the version under which the registry holds id in subject
VersionIn(reg, subject, id) == CHOOSE v \in DOMAIN reg[subject] : reg[subject][v] = id

\* C36: the Schema a successful CreateSchema(subject, ...) returns carries
\* the version under which the registry holds that schema in that subject,
\* and with caching enabled the subject-version cache holds the Schema under
\* the subject and that version.
C36_CreateReportsSubjectVersion ==
    \A t \in Callers :
        (/\ th[t].pc = "done"
         /\ th[t].op = "CreateSchema"
         /\ th[t].err = NoErr
         /\ th[t].res.id \in Range(registry[th[t].subject]))
        => LET v == VersionIn(registry, th[t].subject, th[t].res.id)
           IN  /\ th[t].res.version = v
               /\ cachingEnabled
                     => /\ cacheKey(th[t].subject, Itoa(v)) \in DOMAIN subjectSchemaCache
                        /\ subjectSchemaCache[cacheKey(th[t].subject, Itoa(v))].s.id
                              = th[t].res.id

(***************************************************************************)
(* Claims about deletions on the HTTP client                               *)
(***************************************************************************)
\* what the caches held for a read call when it began
CachedBefore(r) ==
    LET m == IF r.op = "GetSchema" THEN r.before.ids ELSE r.before.keys
        k == IF r.op = "GetSchema" THEN r.id ELSE cacheKey(r.subject, r.version)
    IN  IF k \in DOMAIN m THEN m[k].s ELSE NilSchema

\* C37: DeleteSubject and DeleteSubjectByVersion leave both caches as they
\* were when the call began, at every point of the call; and a read whose
\* key was cached when it began returns the cached Schema without a request,
\* whatever has been deleted in the registry.
C37_DeletesLeaveCaches ==
    \A t \in Callers :
        /\ th[t].op \in DeleteOps
              => /\ idSchemaCache = th[t].before.ids
                 /\ subjectSchemaCache = th[t].before.keys
        /\ (th[t].op \in ReadOps /\ th[t].pc = "done" /\ ~CachedBefore(th[t]).nil)
              => /\ th[t].hit
                 /\ th[t].reqs = 0
                 /\ th[t].err = NoErr
                 /\ th[t].res = CachedBefore(th[t])

\* a read by version that returns the cached Schema of a version the
\* registry has deleted
C37_Witness ==
    \E t \in Callers :
        /\ th[t].op \in {"GetSchemaByVersion", "GetLatestSchema"}
        /\ th[t].pc = "done"
        /\ th[t].hit
        /\ th[t].reqs = 0
        /\ th[t].res.version \in DOMAIN registry[th[t].subject]
        /\ th[t].res.version \notin LiveVersions(registry[th[t].subject])

(***************************************************************************)
(* Claims about registrations the mock refuses                             *)
(***************************************************************************)
\* C38: a CreateSchema call on the mock that returns an error leaves
\* idCounter, schemaVersions and schemaIDs as they were before the call.
C38_FailedCreateChangesNothing ==
    [][(/\ mockLeft' # mockLeft
        /\ mockLast'.op = "CreateSchema"
        /\ mockLast'.err # NoErr)
       => /\ idCounter' = idCounter
          /\ schemaVersions' = schemaVersions
          /\ schemaIDs' = schemaIDs]_vars

(***************************************************************************)
(* Claims about the message type ResolveProtobuf instantiates              *)
(***************************************************************************)
\* C39: the message ResolveProtobuf returns is of the registered type whose
\* fully-qualified name is that of the descriptor the index path addresses.
C39_InstantiatesAddressedType ==
    (dstep = "instantiated" /\ instance.err = NoErr) => instance.type = instance.desc

(***************************************************************************)
(* Claims about progress of concurrent calls                               *)
(***************************************************************************)
\* C40: with every dispatched request answered and a semaphore weight of at
\* least 1, every call that a goroutine has begun (GetSchema,
\* GetSchemaByVersion, GetLatestSchema, CreateSchema, LookupSchema,
\* ResetCache, side by side with those of other goroutines) returns.
C40_EveryCallReturns ==
    \A t \in Threads : (th[t].pc # "done") ~> (th[t].pc = "done")

\* a goroutine waits to write the id cache while ResetCache, begun by
\* another goroutine, holds its lock
C40_Witness ==
    \E t \in Threads, u \in Threads :
        /\ t # u
        /\ th[t].op = "ResetCache"
        /\ idSchemaCacheLock = t
        /\ th[u].pc = "gs_write"

=============================================================================
